---- MODULE Spec2Model ----
(***************************************************************************)
(* Smart-expense: the SMS-to-transaction pipeline.                         *)
(*                                                                         *)
(*   services/smsParser.ts   Field Extractor and Identity Generator        *)
(*   services/smsReader.ts   Message Source (polling listener)             *)
(*   services/smsService.ts  Ingestion Coordinator and Staging Queue       *)
(*   db/db.ts                Transaction Repository (SQLite table)         *)
(*   store/transactionStore  in-memory list of transactions                *)
(*   screens/*.tsx           confirm / reject / manual entry               *)
(*                                                                         *)
(* JavaScript runs every piece of code between two awaits atomically on    *)
(* one event loop; each action below is one such piece.                    *)
(***************************************************************************)
EXTENDS Integers, Sequences, FiniteSets, TLC

(***************************************************************************)
(* Strings.  A JavaScript string is a TLA+ string; its characters are read *)
(* with SubSeq and their UTF-16 code units looked up in the tables below.  *)
(***************************************************************************)
CharAt(s, i) == SubSeq(s, i, i)

\* the printable ASCII characters 32..95 and 97..126, in code order
AsciiLow == " !\"#$%&'()*+,-./0123456789:;<=>?@ABCDEFGHIJKLMNOPQRSTUVWXYZ[\\]^_"

AsciiHigh == "abcdefghijklmnopqrstuvwxyz{|}~"

UpperLetters == "ABCDEFGHIJKLMNOPQRSTUVWXYZ"

LowerLetters == "abcdefghijklmnopqrstuvwxyz"

Digits == "0123456789"

\* 0 when the one-character string c does not occur in s, else its first index
IndexIn(c, s) ==
  IF \E i \in 1..Len(s) : CharAt(s, i) = c
  THEN CHOOSE i \in 1..Len(s) :
         CharAt(s, i) = c /\ \A j \in 1..(i - 1) : CharAt(s, j) # c
  ELSE 0

\* String.prototype.charCodeAt for one character
charCodeAt(c) ==
  IF c = "₹" THEN 8377
  ELSE IF IndexIn(c, AsciiLow) > 0 THEN 31 + IndexIn(c, AsciiLow)
  ELSE IF IndexIn(c, AsciiHigh) > 0 THEN 96 + IndexIn(c, AsciiHigh)
  ELSE 63

IsDigit(c) == IndexIn(c, Digits) > 0

DigitValue(c) == IndexIn(c, Digits) - 1

RECURSIVE MapChars(_, _, _)
\* s with every character that occurs in from replaced by the one at the same
\* place in to
MapChars(s, from, to) ==
  IF Len(s) = 0 THEN ""
  ELSE LET c == CharAt(s, 1)
           k == IndexIn(c, from)
       IN (IF k > 0 THEN CharAt(to, k) ELSE c)
            \o MapChars(SubSeq(s, 2, Len(s)), from, to)

toLowerCase(s) == MapChars(s, UpperLetters, LowerLetters)

toUpperCase(s) == MapChars(s, LowerLetters, UpperLetters)

\* String.prototype.indexOf, 1-based; 0 when w does not occur in s
indexOf(s, w) ==
  LET hits == {i \in 1..(Len(s) - Len(w) + 1) : SubSeq(s, i, i + Len(w) - 1) = w}
  IN IF hits = {} THEN 0
     ELSE CHOOSE i \in hits : \A j \in hits : i <= j

includes(s, w) == indexOf(s, w) > 0

\* String.prototype.substring(0, n)
substring0(s, n) == SubSeq(s, 1, IF n < Len(s) THEN n ELSE Len(s))

RECURSIVE trimStart(_)
trimStart(s) ==
  IF Len(s) > 0 /\ CharAt(s, 1) = " " THEN trimStart(SubSeq(s, 2, Len(s))) ELSE s

RECURSIVE trimEnd(_)
trimEnd(s) ==
  IF Len(s) > 0 /\ CharAt(s, Len(s)) = " "
  THEN trimEnd(SubSeq(s, 1, Len(s) - 1)) ELSE s

trim(s) == trimEnd(trimStart(s))

RECURSIVE NatToString(_)
\* the decimal digits of a natural number
NatToString(n) ==
  IF n < 10 THEN CharAt(Digits, n + 1)
  ELSE NatToString(n \div 10) \o CharAt(Digits, (n % 10) + 1)

\* Number.prototype.toString of an integer
IntToString(n) == IF n < 0 THEN "-" \o NatToString(0 - n) ELSE NatToString(n)

(***************************************************************************)
(* Identity Generator: generateTransactionId.                              *)
(* The accumulator is a 32-bit word kept as two 16-bit halves <<hi, lo>>,  *)
(* so that no intermediate value leaves the range of the checker's         *)
(* integers; it stands for the signed value JavaScript's `hash & hash`     *)
(* yields (two's complement: hi >= 32768 is a negative number).            *)
(***************************************************************************)
Half == 65536

\* hash = ((hash << 5) + hash + char) & 0xffffffff, i.e. hash * 33 + char
HashStepAdding(h, code) ==
  LET lo == h[2] * 33 + code
  IN <<(h[1] * 33 + (lo \div Half)) % Half, lo % Half>>

\* hash = ((hash << 5) - hash + char) & 0xffffffff, i.e. hash * 31 + char
HashStep(h, code) ==
  LET lo == h[2] * 31 + code
  IN <<(h[1] * 31 + (lo \div Half)) % Half, lo % Half>>

RECURSIVE HashFrom(_, _, _)
\* the for loop over str[i..], starting from accumulator h.  A half is never
\* negative: the test on h[1] only has the accumulator computed before the
\* next iteration, as the loop does, instead of after the last one.
HashFrom(h, str, i) ==
  IF i > Len(str) \/ h[1] < 0 THEN h
  ELSE HashFrom(HashStep(h, charCodeAt(CharAt(str, i))), str, i + 1)

\* Math.abs of the signed 32-bit word, again as two halves (2^31 is <<32768, 0>>)
AbsWord(h) ==
  IF h[1] < 32768 THEN h
  ELSE IF h[2] = 0 THEN <<Half - h[1], 0>>
  ELSE <<Half - 1 - h[1], Half - h[2]>>

Base36Digits == "0123456789abcdefghijklmnopqrstuvwxyz"

RECURSIVE ToBase36(_)
\* Number.prototype.toString(36) of a non-negative word
ToBase36(h) ==
  LET qhi  == h[1] \div 36
      mid  == (h[1] % 36) * Half + h[2]
      qlo  == mid \div 36
      r    == mid % 36
      \* qlo can exceed 16 bits only by carrying into the high half
      q    == <<qhi + (qlo \div Half), qlo % Half>>
  IN IF q = <<0, 0>> THEN CharAt(Base36Digits, r + 1)
     ELSE ToBase36(q) \o CharAt(Base36Digits, r + 1)

\* amount and timestamp arrive already rendered as JavaScript renders numbers
\* in a template string
generateTransactionId(sender, amount, timestamp) ==
  LET str == sender \o "_" \o amount \o "_" \o timestamp
  IN "tx_" \o ToBase36(AbsWord(HashFrom(<<0, 0>>, str, 1)))

(***************************************************************************)
(* Time.  Date.now() and Date.prototype.getTime() count milliseconds; the  *)
(* model counts ticks, DayTicks of them to a calendar day, and takes UTC   *)
(* as the local zone.  An ISO string (toISOString) is an injective         *)
(* rendering of a valid time value, so a record keeps the time value.      *)
(***************************************************************************)
DayTicks == 2

\* days since 1970-01-01 of the proleptic Gregorian date y-m-d (m in 1..12)
DaysFromCivil(y, m, d) ==
  LET yy  == IF m <= 2 THEN y - 1 ELSE y
      era == yy \div 400
      yoe == yy - era * 400
      mp  == IF m > 2 THEN m - 3 ELSE m + 9
      doy == (153 * mp + 2) \div 5 + d - 1
      doe == yoe * 365 + yoe \div 4 - yoe \div 100 + doy
  IN era * 146097 + doe - 719468

\* new Date(year, monthIndex, day).getTime(): years 0..99 mean 1900..1999, a
\* month index outside 0..11 carries into the year, a day outside the month
\* carries into the neighbouring months
DateFromParts(year, monthIndex, day) ==
  LET y0 == IF year >= 0 /\ year <= 99 THEN 1900 + year ELSE year
      y  == y0 + (monthIndex \div 12)
      m  == (monthIndex % 12) + 1
  IN (DaysFromCivil(y, m, 1) + (day - 1)) * DayTicks

RECURSIVE parseInt(_)
\* parseInt of a string of decimal digits
parseInt(s) ==
  IF Len(s) = 0 THEN 0
  ELSE parseInt(SubSeq(s, 1, Len(s) - 1)) * 10 + DigitValue(CharAt(s, Len(s)))

(***************************************************************************)
(* Field Extractor, step 1: the amount.                                    *)
(* A regular expression is tried at every index and answers the index      *)
(* after its match there (0 for no match); a match is the pair             *)
(* <<start, end>>.  Whitespace in the message sets is the space.           *)
(***************************************************************************)
RECURSIVE RunEnd(_, _, _)
\* the first index >= i of s whose character is not one of chars (Len(s) + 1
\* when the run reaches the end): where a greedy character class stops
RunEnd(s, i, chars) ==
  IF i <= Len(s) /\ IndexIn(CharAt(s, i), chars) > 0
  THEN RunEnd(s, i + 1, chars) ELSE i

HasAt(s, i, w) == i + Len(w) - 1 <= Len(s) /\ SubSeq(s, i, i + Len(w) - 1) = w

\* the text of a match
Slice(body, p) == SubSeq(body, p[1], p[2] - 1)

\* the last of the matches taken instead of the first
Rightmost(body, matches) ==
  IF matches = {} THEN ""
  ELSE Slice(body, CHOOSE p \in matches : \A q \in matches : p[1] >= q[1])

\* String.prototype.match(...)[0]: the leftmost of the matches, "" for none
Leftmost(body, matches) ==
  IF matches = {} THEN ""
  ELSE Slice(body, CHOOSE p \in matches : \A q \in matches : p[1] <= q[1])

\* length of the currency marker (?:INR|Rs|₹), case-insensitive, at index i;
\* low is body in lower case
MarkerLenAt(body, low, i) ==
  IF HasAt(low, i, "inr") THEN 3
  ELSE IF HasAt(low, i, "rs") THEN 2
  ELSE IF HasAt(body, i, "₹") THEN 1
  ELSE 0

\* \.?\d* from index k
FractionEnd(body, k) ==
  RunEnd(body, IF HasAt(body, k, ".") THEN k + 1 ELSE k, Digits)

\* [\d,]+ from index j having run up to k, then the fraction
NumberEnd(body, j, k) == IF k = j THEN 0 ELSE FractionEnd(body, k)

\* ([\d,]+\.?\d*) from index j
NumberFrom(body, j) == NumberEnd(body, j, RunEnd(body, j, "0123456789,"))

\* \s*([\d,]+\.?\d*) after a marker of length m at index i
AfterMarker(body, i, m) ==
  IF m = 0 THEN 0 ELSE NumberFrom(body, RunEnd(body, i + m, " "))

\* /(?:INR|Rs|₹)\s*([\d,]+\.?\d*)/gi tried at index i
AmountMatchEnd(body, low, i) == AfterMarker(body, i, MarkerLenAt(body, low, i))

AmountMatches(body, low) ==
  {p \in {<<i, AmountMatchEnd(body, low, i)>> : i \in 1..Len(body)} : p[2] > 0}

\* body.match(amountRegex)[0], "" when match answers null
FirstAmountMatch(body) == Leftmost(body, AmountMatches(body, toLowerCase(body)))

RECURSIVE RemoveChar(_, _)
RemoveChar(s, c) ==
  IF Len(s) = 0 THEN ""
  ELSE (IF CharAt(s, 1) = c THEN "" ELSE CharAt(s, 1))
         \o RemoveChar(SubSeq(s, 2, Len(s)), c)

\* .replace(/INR|Rs|₹/gi, '').replace(/,/g, '').trim() of a match: the marker
\* is its prefix and nothing after it can hold another marker
AmountStr(match) ==
  trim(RemoveChar(SubSeq(match, MarkerLenAt(match, toLowerCase(match), 1) + 1,
                         Len(match)), ","))

RECURSIVE StripLeadingZeros(_)
StripLeadingZeros(s) ==
  IF Len(s) > 1 /\ CharAt(s, 1) = "0"
  THEN StripLeadingZeros(SubSeq(s, 2, Len(s))) ELSE s

RECURSIVE StripTrailingZeros(_)
StripTrailingZeros(s) ==
  IF Len(s) > 0 /\ CharAt(s, Len(s)) = "0"
  THEN StripTrailingZeros(SubSeq(s, 1, Len(s) - 1)) ELSE s

\* how JavaScript prints the number with integer digits int and fraction
\* digits frac, both stripped of the zeros that do not count
PrintedNumber(int, frac) == IF frac = "" THEN int ELSE int \o "." \o frac

\* the number whose digits before the point are ipart and after it fpart
NumberOfParts(ipart, fpart) ==
  IF ipart = "" /\ fpart = "" THEN "NaN"
  ELSE PrintedNumber(StripLeadingZeros(IF ipart = "" THEN "0" ELSE ipart),
                     StripTrailingZeros(fpart))

\* s split at its decimal point, which is at index dot (0: none)
NumberSplitAt(s, dot) ==
  NumberOfParts(IF dot = 0 THEN s ELSE SubSeq(s, 1, dot - 1),
                IF dot = 0 THEN "" ELSE SubSeq(s, dot + 1, Len(s)))

\* parseFloat of a string of the shape digits* [ "." digits* ], given as
\* JavaScript prints the resulting number ("NaN" when there is no digit).
\* Exact for the at most 15 significant digits the message sets use.
parseFloat(s) == NumberSplitAt(s, indexOf(s, "."))

\* the check `amount <= 0` left out
IsZeroAmountNever(a) == FALSE

\* amount <= 0 for a number printed by parseFloat above
IsZeroAmount(a) == a = "0"

(***************************************************************************)
(* Field Extractor, step 2: the direction.                                 *)
(***************************************************************************)
debitKeywords ==
  <<"debited", "spent", "withdrawn", "paid", "purchase", "purchased", "transaction">>

creditKeywords == <<"credited", "received", "deposited", "refund", "refunded">>

SomeIncluded(keywords, text) ==
  \E k \in 1..Len(keywords) : includes(text, keywords[k])

\* indexOf gives -1 for an absent substring; here 0-based like JavaScript
JsIndexOf(s, w) == indexOf(s, w) - 1

\* the later of the two substrings deciding instead of the earlier
TypeOfCuesLater(bodyLower, hasDebit, hasCredit) ==
  IF hasCredit /\ ~hasDebit THEN "credit"
  ELSE IF hasDebit /\ ~hasCredit THEN "debit"
  ELSE IF hasCredit /\ hasDebit
       THEN IF JsIndexOf(bodyLower, "credit") > JsIndexOf(bodyLower, "debit")
            THEN "credit" ELSE "debit"
  ELSE "debit"

\* the if / else if chain over hasDebit and hasCredit
TypeOfCues(bodyLower, hasDebit, hasCredit) ==
  IF hasCredit /\ ~hasDebit THEN "credit"
  ELSE IF hasDebit /\ ~hasCredit THEN "debit"
  ELSE IF hasCredit /\ hasDebit
       THEN IF JsIndexOf(bodyLower, "credit") < JsIndexOf(bodyLower, "debit")
            THEN "credit" ELSE "debit"
  ELSE "debit"

TypeOfLower(bodyLower) ==
  TypeOfCues(bodyLower, SomeIncluded(debitKeywords, bodyLower),
             SomeIncluded(creditKeywords, bodyLower))

TransactionTypeOf(body) == TypeOfLower(toLowerCase(body))

(***************************************************************************)
(* Field Extractor, step 3: the date.                                      *)
(***************************************************************************)
DigitsAt(s, i, n) ==
  i + n - 1 <= Len(s) /\ \A k \in i..(i + n - 1) : IsDigit(CharAt(s, k))

\* (\d{1,2})SEP(\d{1,2})SEP(\d{4}) at index i with groups of a and b digits
DayFirstFits(body, i, sep, a, b) ==
  /\ DigitsAt(body, i, a)
  /\ HasAt(body, i + a, sep)
  /\ DigitsAt(body, i + a + 1, b)
  /\ HasAt(body, i + a + 1 + b, sep)
  /\ DigitsAt(body, i + a + 1 + b + 1, 4)

\* the end of the match whose groups' lengths are in fits, 0 for none
DayFirstEnd(i, fits) ==
  IF fits = {} THEN 0
  ELSE i + 6 + (CHOOSE n \in {h[1] + h[2] : h \in fits} : TRUE)

\* /(\d{1,2})SEP(\d{1,2})SEP(\d{4})/ tried at index i.  The place of the
\* separators fixes the lengths of the two groups, so the greedy order
\* decides nothing.
DayFirstMatchEnd(body, i, sep) ==
  DayFirstEnd(i, {h \in (1..2) \X (1..2) : DayFirstFits(body, i, sep, h[1], h[2])})

\* (\d{4})-(\d{1,2})-(\d{1,2}) at index i with a month of b digits
YearFirstFits(body, i, b) ==
  /\ DigitsAt(body, i, 4)
  /\ HasAt(body, i + 4, "-")
  /\ DigitsAt(body, i + 5, b)
  /\ HasAt(body, i + 5 + b, "-")
  /\ DigitsAt(body, i + 5 + b + 1, 1)

\* the last group starts at index e and is greedy
YearFirstEnd(body, e) == IF DigitsAt(body, e, 2) THEN e + 2 ELSE e + 1

YearFirstFrom(body, i, fits) ==
  IF fits = {} THEN 0
  ELSE YearFirstEnd(body, i + 6 + (CHOOSE b \in fits : TRUE))

\* /(\d{4})-(\d{1,2})-(\d{1,2})/ tried at index i
YearFirstMatchEnd(body, i) ==
  YearFirstFrom(body, i, {b \in 1..2 : YearFirstFits(body, i, b)})

\* dateFormats[k], k = 0..2, tried at index i
DateMatchEnd(body, k, i) ==
  IF k = 0 THEN DayFirstMatchEnd(body, i, "/")
  ELSE IF k = 1 THEN DayFirstMatchEnd(body, i, "-")
  ELSE YearFirstMatchEnd(body, i)

\* body.match(dateFormats[k])[0], "" when match answers null
DateMatch(body, k) ==
  Leftmost(body,
           {p \in {<<i, DateMatchEnd(body, k, i)>> : i \in 1..Len(body)} : p[2] > 0})

\* the time value of an Invalid Date (NaN), outside every valid time value
NaNTime == 0 - 2000000000

DaysInMonth(y, m) == DaysFromCivil(IF m = 12 THEN y + 1 ELSE y, (m % 12) + 1, 1)
                       - DaysFromCivil(y, m, 1)

\* new Date(dateStr).getTime() for a match of the third pattern.  The
\* date-only ISO form YYYY-MM-DD is UTC midnight of that day; any other
\* string (one-digit month or day, a day the month does not have) is left to
\* the engine's fallback parser, taken here to answer Invalid Date.
DateFromString(dateStr) ==
  LET y == parseInt(SubSeq(dateStr, 1, 4))
      m == parseInt(SubSeq(dateStr, 6, 7))
      d == parseInt(SubSeq(dateStr, 9, 10))
  IN IF /\ Len(dateStr) = 10
        /\ DigitsAt(dateStr, 6, 2) /\ DigitsAt(dateStr, 9, 2)
        /\ m >= 1 /\ m <= 12 /\ d >= 1 /\ d <= DaysInMonth(y, m)
     THEN DaysFromCivil(y, m, d) * DayTicks
     ELSE NaNTime

\* new Date(parseInt(parts[2]), parseInt(parts[1]) - 1, parseInt(parts[0]))
\* for the separators of dateStr at s1 and s2
DateFromSplit(dateStr, s1, s2) ==
  DateFromParts(parseInt(SubSeq(dateStr, s2 + 1, Len(dateStr))),
                parseInt(SubSeq(dateStr, s1 + 1, s2 - 1)) - 1,
                parseInt(SubSeq(dateStr, 1, s1 - 1)))

SecondSeparator(dateStr, sep, s1) ==
  s1 + indexOf(SubSeq(dateStr, s1 + 1, Len(dateStr)), sep)

DateFromFirstSeparator(dateStr, sep, s1) ==
  DateFromSplit(dateStr, s1, SecondSeparator(dateStr, sep, s1))

\* dateStr.split(/[\/-]/) of a match of one of the first two patterns
DateFromDayFirst(dateStr, sep) ==
  DateFromFirstSeparator(dateStr, sep, indexOf(dateStr, sep))

\* the body of the loop for the matches d0, d1, d2 of the three formats
DateOfMatches(d0, d1, d2, current) ==
  IF d0 # "" THEN DateFromDayFirst(d0, "/")
  ELSE IF d1 # "" THEN DateFromDayFirst(d1, "-")
  ELSE IF d2 # "" THEN DateFromString(d2)
  ELSE current

\* the for loop over dateFormats: the first format that matches sets the date
\* and breaks; with no match the date stays new Date(), the processing time
PatternDate(body, current) ==
  DateOfMatches(DateMatch(body, 0), DateMatch(body, 1), DateMatch(body, 2),
                current)

\* the relative dates are looked for after the loop, whatever the loop found
RelativeDate(bodyLower, patternDate, current) ==
  IF includes(bodyLower, "today") THEN current
  ELSE IF includes(bodyLower, "yesterday") THEN current - DayTicks
  ELSE patternDate

TransactionDate(body, current) ==
  RelativeDate(toLowerCase(body), PatternDate(body, current), current)

(***************************************************************************)
(* Field Extractor, step 4: the bank.                                      *)
(***************************************************************************)
bankPatterns ==
  << <<"HDFC", "HDFC Bank">>, <<"ICICI", "ICICI Bank">>,
     <<"SBI", "State Bank of India">>, <<"AXIS", "Axis Bank">>,
     <<"KOTAK", "Kotak Mahindra">>, <<"PNB", "Punjab National Bank">>,
     <<"BOI", "Bank of India">>, <<"BOB", "Bank of Baroda">>,
     <<"CANARA", "Canara Bank">>, <<"UNION", "Union Bank">> >>

\* the last entry of the table that sender contains taken instead of the first
BankOfHitsLast(sender, hits) ==
  IF hits # {}
  THEN bankPatterns[CHOOSE k \in hits : \A j \in hits : k >= j][2]
  ELSE IF Len(sender) > 20 THEN SubSeq(sender, 1, 20) ELSE sender

\* the for loop over bankPatterns, hits being the entries sender contains
BankOfHits(sender, hits) ==
  IF hits # {}
  THEN bankPatterns[CHOOSE k \in hits : \A j \in hits : k <= j][2]
  ELSE IF Len(sender) > 20 THEN SubSeq(sender, 1, 20) ELSE sender

BankOfUpper(sender, senderUpper) ==
  BankOfHits(sender, {k \in 1..Len(bankPatterns) :
                        includes(senderUpper, bankPatterns[k][1])})

extractBankName(sender) == BankOfUpper(sender, toUpperCase(sender))

(***************************************************************************)
(* Field Extractor: parseSmsToTransaction.  current is what new Date()     *)
(* answers during the call.  null stands for the JavaScript null.          *)
(***************************************************************************)
null == [isNull |-> TRUE]

\* the return statement.  toISOString of an Invalid Date throws a
\* RangeError, which the catch around the whole body turns into null
TransactionOf(sender, body, current, amount, transactionDate) ==
  IF transactionDate = NaNTime THEN null
  ELSE [id          |-> generateTransactionId(sender, amount,
                                              IntToString(transactionDate)),
        amount      |-> amount,
        type        |-> TransactionTypeOf(body),
        date        |-> transactionDate,
        description |-> trim(substring0(body, 100)),
        bank        |-> extractBankName(sender),
        source      |-> "sms",
        createdAt   |-> current,
        updatedAt   |-> current]

\* if (isNaN(amount) || amount <= 0) return null
WithAmount(sender, body, current, amount) ==
  IF amount = "NaN" \/ IsZeroAmount(amount) THEN null
  ELSE TransactionOf(sender, body, current, amount,
                     TransactionDate(body, current))

\* if (!amountMatch || amountMatch.length === 0) return null
WithAmountMatch(sender, body, current, amountMatch) ==
  IF amountMatch = "" THEN null
  ELSE WithAmount(sender, body, current, parseFloat(AmountStr(amountMatch)))

parseSmsToTransaction(sender, body, current) ==
  WithAmountMatch(sender, body, current, FirstAmountMatch(body))

(***************************************************************************)
(* Bounds of the model and the messages it sends.                          *)
(***************************************************************************)
MaxClock == 1       \* ticks the clock advances
MaxSms == 2         \* messages that arrive in the inbox
MaxDirect == 2      \* calls of handleIncomingSms
MaxProcs == 2       \* processIncomingSms calls in flight
MaxPolls == 1       \* SmsAndroid.list calls in flight
MaxUiOps == 1       \* confirms and rejects in flight
MaxFlagWrites == 1  \* calls of setAutoConfirmSetting
MaxFaults == 2      \* times a storage layer starts or stops failing
MaxStarts == 1      \* calls of startSmsListener
MaxStops == 1       \* calls of stopSmsListener
OldCount == 9       \* inbox entries older than the start of the app
MaxScreenOps == 2   \* screen handlers in flight, manual entries and refreshes included
MaxManual == 1      \* manual entries submitted with success
MaxRestarts == 2    \* calls of startSmsListener where calls may overlap
MaxOverlap == 2     \* SmsAndroid.list calls in flight where ticks may overlap

\* the tick at which the app starts: the day after 05/01/2024, past midnight
StartTime == DateFromParts(2024, 0, 6) + 1

Times == StartTime..(StartTime + MaxClock)

MsgUndated == <<"VM-HDFCBK", "Rs 1,234.50 debited from your account">>

MsgDated == <<"AX-ICICI", "INR 500 credited on 05/01/2024">>

MsgNoise == <<"AD-PROMO", "Your OTP is 1234">>

Messages == {MsgUndated, MsgDated, MsgNoise}

\* a marker followed by a number that is not positive
MsgZero == <<"VM-HDFCBK", "Rs 0.00 charged">>

\* a marker followed by a separator alone, which parseFloat reads as NaN
MsgComma == <<"VM-HDFCBK", "INR , due">>

\* messages from which no record is extracted
Unextracted == {MsgNoise, MsgZero, MsgComma}

\* a second transaction of the sender, amount and date of MsgDated
MsgTwin == <<"AX-ICICI", "INR 500 debited on 05/01/2024">>

Twins == {MsgDated, MsgTwin}

\* parseSmsToTransaction of every message at every time, computed once:
\* the triples <<message, time, result>>
ParseTable ==
  {<<m, t, parseSmsToTransaction(m[1], m[2], t)>> :
     m \in Messages \cup Unextracted \cup Twins, t \in Times}

\* parseSmsToTransaction(m[1], m[2]) called while the clock shows t
Parsed(m, t) == (CHOOSE e \in ParseTable : e[1] = m /\ e[2] = t)[3]

Max(S) == CHOOSE x \in S : \A y \in S : y <= x

Min2(a, b) == IF a < b THEN a ELSE b

Range(f) == {f[i] : i \in DOMAIN f}

RemoveAt(seq, i) == SubSeq(seq, 1, i - 1) \o SubSeq(seq, i + 1, Len(seq))

Ids(txs) == {tx.id : tx \in txs}

(***************************************************************************)
(* State.                                                                  *)
(***************************************************************************)
VARIABLES
  now,                      \* what Date.now() answers
  inbox,                    \* the platform inbox, newest entry first
  os,                       \* Platform.OS
  dbFails,                  \* SQLite statements fail (executeSql error callback)
  kvFails,                  \* AsyncStorage calls reject
  faults,                   \* how often a storage layer changed its mind
  \* services/smsReader.ts, module state
  listenerActive,
  onNewTransactionCallback, \* TRUE: processIncomingSms, FALSE: null
  lastSmsTimestamp,
  pollingInterval,          \* 0: null, else the handle setInterval returned
  timers,                   \* the interval timers that are running
  starting,                 \* startSmsListener calls awaiting the permission
  starts,                   \* calls of startSmsListener so far
  stops,                    \* calls of stopSmsListener so far
  directs,                  \* calls of handleIncomingSms so far
  polls,                    \* SmsAndroid.list calls whose callback is due
  delivered,                \* log: the messages passed to the callback, with the
                            \* inbox id of each (0 for handleIncomingSms)
  \* services/smsService.ts
  procs,                    \* processIncomingSms calls in flight
  unhandled,                \* a rejection left processIncomingSms
  autoConfirmValue,         \* AsyncStorage item sms_auto_confirm
  flagWrites,               \* calls of setAutoConfirmSetting so far
  pendingValue,             \* AsyncStorage item pending_transactions, decoded
  \* db/db.ts
  rows,                     \* the rows of table transactions
  \* store/transactionStore.ts
  transactions,
  \* screens/PendingTransactions.tsx
  pendingTransactions,      \* the component's state
  uiOps,                    \* handleConfirm and handleReject calls in flight
  \* db/db.ts, module state
  db,                       \* TRUE: the database handle, FALSE: null
  \* a function called on its own
  input,                    \* the arguments it is called with
  calls                     \* log: the calls made, each with what it returned

envVars == <<now, inbox, os, dbFails, kvFails, faults>>

readerVars == <<listenerActive, onNewTransactionCallback, lastSmsTimestamp,
                pollingInterval, timers, starting, starts, stops, directs>>

storeVars == <<autoConfirmValue, flagWrites, pendingValue, rows, transactions>>

uiVars == <<pendingTransactions, uiOps>>

unitVars == <<db, input, calls>>

vars == <<envVars, readerVars, polls, delivered, procs, unhandled, storeVars,
          uiVars, unitVars>>

\* the entries the inbox holds when the app starts, none of them a transaction
OldInbox ==
  [k \in 1..OldCount |->
     [id |-> OldCount + 1 - k, date |-> StartTime - k,
      address |-> MsgNoise[1], body |-> MsgNoise[2]]]

\* module load: the initial values of the module-level lets, the empty store,
\* an empty table; the persisted auto-confirm item is whatever an earlier run
\* of the app left
ModuleLoad ==
  /\ now = StartTime
  /\ inbox = OldInbox
  /\ os \in {"android", "ios"}
  /\ dbFails = FALSE
  /\ kvFails = FALSE
  /\ faults = 0
  /\ listenerActive = FALSE
  /\ onNewTransactionCallback = FALSE
  /\ lastSmsTimestamp = 0
  /\ pollingInterval = 0
  /\ timers = {}
  /\ starting = 0
  /\ starts = 0
  /\ stops = 0
  /\ directs = 0
  /\ polls = <<>>
  /\ delivered = <<>>
  /\ procs = <<>>
  /\ unhandled = FALSE
  /\ autoConfirmValue \in {"absent", "false"}
  /\ flagWrites = 0
  /\ pendingValue = <<>>
  /\ rows = {}
  /\ transactions = <<>>
  /\ pendingTransactions = <<>>
  /\ uiOps = <<>>

\* no function is called on its own
NoInput == <<>>

\* the app as App's initializeApp leaves it before it starts the SMS service:
\* `await initDb()` has opened the database
Init ==
  /\ ModuleLoad
  /\ db = TRUE
  /\ input = NoInput
  /\ calls = <<>>

(***************************************************************************)
(* The environment: the clock, the inbox, the storage layers.              *)
(***************************************************************************)
ClockTick ==
  /\ now < StartTime + MaxClock
  /\ now' = now + 1
  /\ UNCHANGED unitVars
  /\ UNCHANGED <<inbox, os, dbFails, kvFails, faults, readerVars, polls,
                 delivered, procs, unhandled, storeVars, uiVars>>

\* a message reaches the inbox, stamped with the current time
SmsArrives(m) ==
  /\ Len(inbox) < OldCount + MaxSms
  /\ inbox' = <<[id |-> Len(inbox) + 1, date |-> now,
                 address |-> m[1], body |-> m[2]]>> \o inbox
  /\ UNCHANGED unitVars
  /\ UNCHANGED <<now, os, dbFails, kvFails, faults, readerVars, polls,
                 delivered, procs, unhandled, storeVars, uiVars>>

DbFaultToggles ==
  /\ faults < MaxFaults
  /\ faults' = faults + 1
  /\ dbFails' = ~dbFails
  /\ UNCHANGED unitVars
  /\ UNCHANGED <<now, inbox, os, kvFails, readerVars, polls, delivered, procs,
                 unhandled, storeVars, uiVars>>

KvFaultToggles ==
  /\ faults < MaxFaults
  /\ faults' = faults + 1
  /\ kvFails' = ~kvFails
  /\ UNCHANGED unitVars
  /\ UNCHANGED <<now, inbox, os, dbFails, readerVars, polls, delivered, procs,
                 unhandled, storeVars, uiVars>>

(***************************************************************************)
(* Ingestion Coordinator, first piece: processIncomingSms up to its first   *)
(* await.  The caller gets the promise back and goes on.                   *)
(***************************************************************************)
\* the calls that wait for the answer of transactionExists(transaction.id)
Waiting(txs) == [i \in 1..Len(txs) |-> [pc |-> "exists", tx |-> txs[i]]]

\* the calls still in flight after processIncomingSms was called, in order,
\* for each of msgs: parse; null ends the call at once; otherwise
\* transactionExists is called and the call waits for its answer
Called(ps, msgs, t) ==
  ps \o Waiting(SelectSeq([i \in 1..Len(msgs) |-> Parsed(msgs[i], t)],
                          LAMBDA tx : tx # null))

(***************************************************************************)
(* Message Source: services/smsReader.ts.                                  *)
(***************************************************************************)
maxCount == 10

\* SmsAndroid.list with {box: 'inbox', maxCount: 10, sort: 'date'}: the
\* maxCount most recent entries
ListInbox(box) == SubSeq(box, 1, Min2(maxCount, Len(box)))

\* messages.filter(msg => msg.date >= lastSmsTimestamp)
NewMessagesInclusive(messages, watermark) ==
  SelectSeq(messages, LAMBDA msg : msg.date >= watermark)

\* messages.filter(msg => msg.date > lastSmsTimestamp)
NewMessages(messages, watermark) ==
  SelectSeq(messages, LAMBDA msg : msg.date > watermark)

\* msg.address and msg.body of each entry (none is empty in this model)
Pairs(msgs) == [i \in 1..Len(msgs) |-> <<msgs[i].address, msgs[i].body>>]

\* what the log of callback invocations keeps of each entry
Passed(msgs) ==
  [i \in 1..Len(msgs) |->
     [id |-> msgs[i].id, sender |-> msgs[i].address, body |-> msgs[i].body]]

\* the handle the next setInterval returns: one no running timer has
NewHandle ==
  CHOOSE h \in 1..(Cardinality(timers) + 1) :
    h \notin timers /\ \A g \in 1..(h - 1) : g \in timers

\* startSmsListener without its check of Platform.OS
StartSmsListenerAnyPlatform ==
  /\ starts < MaxStarts
  /\ starts' = starts + 1
  /\ starting' = IF listenerActive THEN starting ELSE starting + 1
  /\ UNCHANGED unitVars
  /\ UNCHANGED <<envVars, listenerActive, onNewTransactionCallback,
                 lastSmsTimestamp, pollingInterval, timers, stops, directs,
                 polls, delivered, procs, unhandled, storeVars, uiVars>>

\* startSmsListener up to `await requestSmsPermission()`
StartSmsListenerCall ==
  /\ starts' = starts + 1
  /\ starting' = IF os # "android" \/ listenerActive THEN starting
                 ELSE starting + 1
  /\ UNCHANGED unitVars
  /\ UNCHANGED <<envVars, listenerActive, onNewTransactionCallback,
                 lastSmsTimestamp, pollingInterval, timers, stops, directs,
                 polls, delivered, procs, unhandled, storeVars, uiVars>>

\* startSmsListener called, up to MaxStarts times
StartSmsListener == starts < MaxStarts /\ StartSmsListenerCall

\* startSmsListener after the permission was answered
StartSmsListenerResumes(hasPermission) ==
  /\ starting > 0
  /\ starting' = starting - 1
  /\ IF hasPermission
     THEN /\ onNewTransactionCallback' = TRUE
          /\ listenerActive' = TRUE
          /\ lastSmsTimestamp' = now
          /\ pollingInterval' = NewHandle
          /\ timers' = timers \cup {NewHandle}
     ELSE UNCHANGED <<onNewTransactionCallback, listenerActive,
                      lastSmsTimestamp, pollingInterval, timers>>
  /\ UNCHANGED unitVars
  /\ UNCHANGED <<envVars, starts, stops, directs, polls, delivered, procs,
                 unhandled, storeVars, uiVars>>

StopSmsListener ==
  /\ stops < MaxStops
  /\ stops' = stops + 1
  /\ IF ~listenerActive
     THEN UNCHANGED <<listenerActive, onNewTransactionCallback,
                      pollingInterval, timers>>
     ELSE /\ listenerActive' = FALSE
          /\ onNewTransactionCallback' = FALSE
          /\ timers' = timers \ {pollingInterval}
          /\ pollingInterval' = 0
  /\ UNCHANGED unitVars
  /\ UNCHANGED <<envVars, lastSmsTimestamp, starting, starts, directs, polls,
                 delivered, procs, unhandled, storeVars, uiVars>>

\* an interval timer fires: pollForNewSms up to the call of SmsAndroid.list
PollForNewSmsCall(timer) ==
  /\ timer \in timers
  /\ listenerActive /\ onNewTransactionCallback
  /\ polls' = Append(polls, ListInbox(inbox))
  /\ UNCHANGED unitVars
  /\ UNCHANGED <<envVars, readerVars, delivered, procs, unhandled, storeVars,
                 uiVars>>

\* a tick while fewer than MaxPolls calls of SmsAndroid.list are in flight
PollForNewSms(timer) == Len(polls) < MaxPolls /\ PollForNewSmsCall(timer)

\* the fail callback of SmsAndroid.list, or a list JSON.parse rejects
PollFails(k) ==
  /\ k \in DOMAIN polls
  /\ polls' = RemoveAt(polls, k)
  /\ UNCHANGED unitVars
  /\ UNCHANGED <<envVars, readerVars, delivered, procs, unhandled, storeVars,
                 uiVars>>

\* the success callback of SmsAndroid.list
PollSucceeds(k) ==
  /\ k \in DOMAIN polls
  /\ LET newMessages == NewMessages(polls[k], lastSmsTimestamp)
         passed == IF onNewTransactionCallback THEN newMessages ELSE <<>>
     IN /\ lastSmsTimestamp' =
             IF Len(newMessages) > 0
             THEN Max({newMessages[i].date : i \in 1..Len(newMessages)})
             ELSE lastSmsTimestamp
        /\ delivered' = delivered \o Passed(passed)
        /\ procs' = Called(procs, Pairs(passed), now)
        /\ Len(procs') <= MaxProcs
  /\ polls' = RemoveAt(polls, k)
  /\ UNCHANGED unitVars
  /\ UNCHANGED <<envVars, listenerActive, onNewTransactionCallback,
                 pollingInterval, timers, starting, starts, stops, directs,
                 unhandled, storeVars, uiVars>>

HandleIncomingSms(m) ==
  /\ directs < MaxDirect
  /\ directs' = directs + 1
  /\ Len(procs) < MaxProcs
  /\ IF listenerActive /\ onNewTransactionCallback
     THEN /\ delivered' = Append(delivered, [id |-> 0, sender |-> m[1], body |-> m[2]])
          /\ procs' = Called(procs, <<m>>, now)
     ELSE UNCHANGED <<delivered, procs>>
  /\ UNCHANGED unitVars
  /\ UNCHANGED <<envVars, listenerActive, onNewTransactionCallback,
                 lastSmsTimestamp, pollingInterval, timers, starting, starts,
                 stops, polls, unhandled, storeVars, uiVars>>

(***************************************************************************)
(* Transaction Repository (db/db.ts) and the in-memory store.              *)
(***************************************************************************)
\* INSERT INTO transactions ... without OR IGNORE semantics of its own: the
\* row replaces the one that has its id
insertOrReplace(table, tx) == {r \in table : r.id # tx.id} \cup {tx}

\* INSERT OR IGNORE INTO transactions ...; id is the PRIMARY KEY
insertTransaction(table, tx) ==
  IF \E r \in table : r.id = tx.id THEN table ELSE table \cup {tx}

\* SELECT COUNT(*) as count FROM transactions WHERE id = ?; count > 0
transactionExists(table, id) == Cardinality({r \in table : r.id = id}) > 0

\* set({ transactions: [transaction, ...transactions] })
addTransaction(list, tx) == <<tx>> \o list

(***************************************************************************)
(* Persisted configuration and Staging Queue (services/smsService.ts).     *)
(***************************************************************************)
\* the policy on only when the item holds 'true'
getAutoConfirmSettingOptIn(value, fails) == ~fails /\ value = "true"

\* value !== 'false', and true when getItem rejects
getAutoConfirmSetting(value, fails) == IF fails THEN TRUE ELSE value # "false"

\* value ? JSON.parse(value) : [], and [] when getItem rejects.  The item is
\* only ever written as JSON.stringify of a list of records of strings and
\* finite numbers, which JSON.parse gives back unchanged.
getPendingTransactions(value, fails) == IF fails THEN <<>> ELSE value

\* pending.filter(tx => tx.id !== id)
filterPending(pending, id) == SelectSeq(pending, LAMBDA tx : tx.id # id)

\* the value a call of setAutoConfirmSetting(v) leaves in the item
SetAutoConfirmSetting(v) ==
  /\ flagWrites < MaxFlagWrites
  /\ flagWrites' = flagWrites + 1
  /\ autoConfirmValue' = IF kvFails THEN autoConfirmValue
                         ELSE IF v THEN "true" ELSE "false"
  /\ UNCHANGED unitVars
  /\ UNCHANGED <<envVars, readerVars, polls, delivered, procs, unhandled,
                 pendingValue, rows, transactions, uiVars>>

(***************************************************************************)
(* Ingestion Coordinator: processIncomingSms after each of its awaits.     *)
(* A call in flight is [pc, tx] (and the list it read, while it enqueues). *)
(***************************************************************************)
\* the catch block: console.error, and the promise resolves
CatchRethrows(u) == TRUE

CatchProcessingError(u) == u

\* `await transactionExists(transaction.id)` answers
ProcExists(i) ==
  /\ i \in DOMAIN procs
  /\ procs[i].pc = "exists"
  /\ IF dbFails
     THEN /\ procs' = RemoveAt(procs, i)
          /\ unhandled' = CatchProcessingError(unhandled)
     ELSE /\ procs' = IF transactionExists(rows, procs[i].tx.id)
                      THEN RemoveAt(procs, i)
                      ELSE [procs EXCEPT ![i].pc = "setting"]
          /\ UNCHANGED unhandled
  /\ UNCHANGED unitVars
  /\ UNCHANGED <<envVars, readerVars, polls, delivered, storeVars, uiVars>>

\* `await getAutoConfirmSetting()` answers
ProcSetting(i) ==
  /\ i \in DOMAIN procs
  /\ procs[i].pc = "setting"
  /\ procs' = [procs EXCEPT ![i].pc =
                 IF getAutoConfirmSetting(autoConfirmValue, kvFails)
                 THEN "insert" ELSE "getPending"]
  /\ UNCHANGED unitVars
  /\ UNCHANGED <<envVars, readerVars, polls, delivered, unhandled, storeVars,
                 uiVars>>

\* the INSERT of `await insertTransaction(transaction)` runs
ProcInsert(i) ==
  /\ i \in DOMAIN procs
  /\ procs[i].pc = "insert"
  /\ IF dbFails
     THEN /\ procs' = RemoveAt(procs, i)
          /\ unhandled' = CatchProcessingError(unhandled)
          /\ UNCHANGED rows
     ELSE /\ rows' = insertTransaction(rows, procs[i].tx)
          /\ procs' = [procs EXCEPT ![i].pc = "publish"]
          /\ UNCHANGED unhandled
  /\ UNCHANGED unitVars
  /\ UNCHANGED <<envVars, readerVars, polls, delivered, autoConfirmValue,
                 flagWrites, pendingValue, transactions, uiVars>>

\* after the insert: useTransactionStore.getState().addTransaction(transaction)
ProcPublish(i) ==
  /\ i \in DOMAIN procs
  /\ procs[i].pc = "publish"
  /\ transactions' = addTransaction(transactions, procs[i].tx)
  /\ procs' = RemoveAt(procs, i)
  /\ UNCHANGED unitVars
  /\ UNCHANGED <<envVars, readerVars, polls, delivered, unhandled,
                 autoConfirmValue, flagWrites, pendingValue, rows, uiVars>>

\* addPendingTransaction: `await getPendingTransactions()` answers, push
ProcGetPending(i) ==
  /\ i \in DOMAIN procs
  /\ procs[i].pc = "getPending"
  /\ procs' = [procs EXCEPT ![i] =
                 [pc |-> "setPending", tx |-> procs[i].tx,
                  pending |-> Append(getPendingTransactions(pendingValue, kvFails),
                                     procs[i].tx)]]
  /\ UNCHANGED unitVars
  /\ UNCHANGED <<envVars, readerVars, polls, delivered, unhandled, storeVars,
                 uiVars>>

\* addPendingTransaction: the setItem runs; its rejection is caught and logged
ProcSetPending(i) ==
  /\ i \in DOMAIN procs
  /\ procs[i].pc = "setPending"
  /\ pendingValue' = IF kvFails THEN pendingValue ELSE procs[i].pending
  /\ procs' = RemoveAt(procs, i)
  /\ UNCHANGED unitVars
  /\ UNCHANGED <<envVars, readerVars, polls, delivered, unhandled,
                 autoConfirmValue, flagWrites, rows, transactions, uiVars>>

(***************************************************************************)
(* Review screen: screens/PendingTransactions.tsx.  A call in flight is    *)
(* [kind, pc, tx] plus the filtered list while it removes and, after the   *)
(* setItem, whether the setItem was carried out.                           *)
(***************************************************************************)
\* the useEffect of the mounted screen: loadPendingTransactions
LoadPendingTransactions ==
  /\ pendingTransactions' = getPendingTransactions(pendingValue, kvFails)
  /\ UNCHANGED unitVars
  /\ UNCHANGED <<envVars, readerVars, polls, delivered, procs, unhandled,
                 storeVars, uiOps>>

\* handleConfirm(transaction) up to `await insertTransaction(transaction)`
HandleConfirm(tx) ==
  /\ Len(uiOps) < MaxUiOps
  /\ tx \in Range(pendingTransactions)
  /\ uiOps' = Append(uiOps, [kind |-> "confirm", pc |-> "insert", tx |-> tx])
  /\ UNCHANGED unitVars
  /\ UNCHANGED <<envVars, readerVars, polls, delivered, procs, unhandled,
                 storeVars, pendingTransactions>>

\* handleReject(transaction), the Reject button of its alert pressed, up to
\* `await removePendingTransaction(transaction.id)`
HandleReject(tx) ==
  /\ Len(uiOps) < MaxUiOps
  /\ tx \in Range(pendingTransactions)
  /\ uiOps' = Append(uiOps, [kind |-> "reject", pc |-> "getPending", tx |-> tx])
  /\ UNCHANGED unitVars
  /\ UNCHANGED <<envVars, readerVars, polls, delivered, procs, unhandled,
                 storeVars, pendingTransactions>>

\* handleConfirm: the INSERT runs; a rejection goes to the catch (alert)
ConfirmInsert(i) ==
  /\ i \in DOMAIN uiOps
  /\ uiOps[i].pc = "insert"
  /\ IF dbFails
     THEN /\ uiOps' = RemoveAt(uiOps, i)
          /\ UNCHANGED rows
     ELSE /\ rows' = insertTransaction(rows, uiOps[i].tx)
          /\ uiOps' = [uiOps EXCEPT ![i].pc = "getPending"]
  /\ UNCHANGED unitVars
  /\ UNCHANGED <<envVars, readerVars, polls, delivered, procs, unhandled,
                 autoConfirmValue, flagWrites, pendingValue, transactions,
                 pendingTransactions>>

\* removePendingTransaction: `await getPendingTransactions()` answers, filter
RemoveGetPending(i) ==
  /\ i \in DOMAIN uiOps
  /\ uiOps[i].pc = "getPending"
  /\ uiOps' = [uiOps EXCEPT ![i] =
                 [kind |-> uiOps[i].kind, pc |-> "setPending", tx |-> uiOps[i].tx,
                  pending |-> filterPending(
                                getPendingTransactions(pendingValue, kvFails),
                                uiOps[i].tx.id)]]
  /\ UNCHANGED unitVars
  /\ UNCHANGED <<envVars, readerVars, polls, delivered, procs, unhandled,
                 storeVars, pendingTransactions>>

\* what the handler does once removePendingTransaction has resolved
AfterRemove(kind) == IF kind = "confirm" THEN "addTransaction" ELSE "reload"

\* removePendingTransaction: the setItem runs; its rejection is caught and
\* logged, so the handler goes on either way
RemoveSetPending(i) ==
  /\ i \in DOMAIN uiOps
  /\ uiOps[i].pc = "setPending"
  /\ pendingValue' = IF kvFails THEN pendingValue ELSE uiOps[i].pending
  /\ uiOps' = [uiOps EXCEPT ![i] =
                 [kind |-> uiOps[i].kind, pc |-> AfterRemove(uiOps[i].kind),
                  tx |-> uiOps[i].tx, written |-> ~kvFails]]
  /\ UNCHANGED unitVars
  /\ UNCHANGED <<envVars, readerVars, polls, delivered, procs, unhandled,
                 autoConfirmValue, flagWrites, rows, transactions,
                 pendingTransactions>>

\* handleConfirm: addTransaction(transaction), then loadPendingTransactions
\* is called
ConfirmAddTransaction(i) ==
  /\ i \in DOMAIN uiOps
  /\ uiOps[i].pc = "addTransaction"
  /\ transactions' = addTransaction(transactions, uiOps[i].tx)
  /\ uiOps' = [uiOps EXCEPT ![i].pc = "reload"]
  /\ UNCHANGED unitVars
  /\ UNCHANGED <<envVars, readerVars, polls, delivered, procs, unhandled,
                 autoConfirmValue, flagWrites, pendingValue, rows,
                 pendingTransactions>>

\* `await loadPendingTransactions()` of either handler answers
ReloadPending(i) ==
  /\ i \in DOMAIN uiOps
  /\ uiOps[i].pc = "reload"
  /\ pendingTransactions' = getPendingTransactions(pendingValue, kvFails)
  /\ uiOps' = RemoveAt(uiOps, i)
  /\ UNCHANGED unitVars
  /\ UNCHANGED <<envVars, readerVars, polls, delivered, procs, unhandled,
                 storeVars>>

\* ORDER BY date DESC, createdAt DESC
ListedBefore(r1, r2) ==
  \/ r1.date > r2.date
  \/ r1.date = r2.date /\ r1.createdAt >= r2.createdAt

\* the orders in which a SELECT ... ORDER BY date DESC, createdAt DESC may
\* answer the rows of table; rows equal in both columns come in any order
Listings(table) ==
  {f \in [1..Cardinality(table) -> table] :
     /\ \A i, j \in DOMAIN f : i # j => f[i] # f[j]
     /\ \A i, j \in DOMAIN f : i < j => ListedBefore(f[i], f[j])}

\* LIMIT ? OFFSET ? of a listing
LimitOffset(listing, limit, offset) ==
  SubSeq(listing, offset + 1, Min2(Len(listing), offset + limit))

(***************************************************************************)
(* Manual entry (screens/AddExpense.tsx) and the refresh of the in-memory  *)
(* store (store/transactionStore.ts).  Their calls in flight are kept in   *)
(* uiOps with the handlers of the review screen.                           *)
(***************************************************************************)
\* the form as the user fills it in: [amount, type, description]; the date is
\* left at its initial value, today
FormValues == {[amount |-> "50", type |-> "debit", description |-> "Lunch"]}

\* Math.random().toString(36).substr(2, 9): a string no identity in use ends
\* with
RandomSuffix(used) ==
  CHOOSE r \in {"r1", "r2", "r3"} :
    \A id \in used : Len(id) < 2 \/ SubSeq(id, Len(id) - 1, Len(id)) # r

\* the identities in the Repository, in the store and in the handlers' hands
IdsInUse ==
  Ids(rows) \cup Ids(Range(transactions))
    \cup {uiOps[i].tx.id : i \in {j \in DOMAIN uiOps : uiOps[j].kind # "refresh"}}

\* the transaction object handleSubmit builds from the form
ManualTransaction(values, current, suffix) ==
  [id          |-> "manual_" \o IntToString(current) \o "_" \o suffix,
   amount      |-> parseFloat(values.amount),
   type        |-> values.type,
   date        |-> DateFromParts(2024, 0, 6),
   description |-> values.description,
   bank        |-> "Manual Entry",
   source      |-> "manual",
   createdAt   |-> current,
   updatedAt   |-> current]

\* handleSubmit(values) up to `await insertTransaction(transaction)`
HandleSubmit(values) ==
  /\ Len(uiOps) < MaxScreenOps
  /\ Cardinality({r \in rows : r.source = "manual"})
       + Cardinality({i \in DOMAIN uiOps : uiOps[i].kind = "manual"}) < MaxManual
  /\ uiOps' = Append(uiOps,
                     [kind |-> "manual", pc |-> "submitInsert",
                      tx |-> ManualTransaction(values, now, RandomSuffix(IdsInUse))])
  /\ UNCHANGED unitVars
  /\ UNCHANGED <<envVars, readerVars, polls, delivered, procs, unhandled,
                 storeVars, pendingTransactions>>

\* handleSubmit: the INSERT runs; a rejection goes to the catch (alert)
SubmitInsert(i) ==
  /\ i \in DOMAIN uiOps
  /\ uiOps[i].pc = "submitInsert"
  /\ IF dbFails
     THEN /\ uiOps' = RemoveAt(uiOps, i)
          /\ UNCHANGED rows
     ELSE /\ rows' = insertTransaction(rows, uiOps[i].tx)
          /\ uiOps' = [uiOps EXCEPT ![i].pc = "submitAdd"]
  /\ UNCHANGED unitVars
  /\ UNCHANGED <<envVars, readerVars, polls, delivered, procs, unhandled,
                 autoConfirmValue, flagWrites, pendingValue, transactions,
                 pendingTransactions>>

\* handleSubmit: addTransaction(transaction), then the alert
SubmitAddTransaction(i) ==
  /\ i \in DOMAIN uiOps
  /\ uiOps[i].pc = "submitAdd"
  /\ transactions' = addTransaction(transactions, uiOps[i].tx)
  /\ uiOps' = RemoveAt(uiOps, i)
  /\ UNCHANGED unitVars
  /\ UNCHANGED <<envVars, readerVars, polls, delivered, procs, unhandled,
                 autoConfirmValue, flagWrites, pendingValue, rows,
                 pendingTransactions>>

\* refreshFromDb up to `await fetchTransactions()`; one refresh at a time
RefreshFromDb ==
  /\ Len(uiOps) < MaxScreenOps
  /\ \A i \in DOMAIN uiOps : uiOps[i].kind # "refresh"
  /\ uiOps' = Append(uiOps, [kind |-> "refresh", pc |-> "fetch"])
  /\ UNCHANGED unitVars
  /\ UNCHANGED <<envVars, readerVars, polls, delivered, procs, unhandled,
                 storeVars, pendingTransactions>>

\* refreshFromDb: the SELECT of fetchTransactions() runs, with the default
\* limit 100 and offset 0; a rejection goes to the catch and the list stays
RefreshFetch(i, listing) ==
  /\ i \in DOMAIN uiOps
  /\ uiOps[i].pc = "fetch"
  /\ listing \in Listings(rows)
  /\ uiOps' = IF ~db \/ dbFails THEN RemoveAt(uiOps, i)
              ELSE [uiOps EXCEPT ![i] =
                      [kind |-> "refresh", pc |-> "set",
                       listing |-> LimitOffset(listing, 100, 0)]]
  /\ UNCHANGED unitVars
  /\ UNCHANGED <<envVars, readerVars, polls, delivered, procs, unhandled,
                 storeVars, pendingTransactions>>

\* refreshFromDb: set({ transactions, isLoading: false })
RefreshSet(i) ==
  /\ i \in DOMAIN uiOps
  /\ uiOps[i].pc = "set"
  /\ transactions' = uiOps[i].listing
  /\ uiOps' = RemoveAt(uiOps, i)
  /\ UNCHANGED unitVars
  /\ UNCHANGED <<envVars, readerVars, polls, delivered, procs, unhandled,
                 autoConfirmValue, flagWrites, pendingValue, rows,
                 pendingTransactions>>

(***************************************************************************)
(* Transaction Repository (db/db.ts), called on its own.  Every exported   *)
(* function returns a promise; a call is logged with how it settled.       *)
(***************************************************************************)
MaxCalls == 4       \* calls logged

Rejected == [settled |-> "rejected"]

Resolved(value) == [settled |-> "resolved", value |-> value]

\* the executor of the promise with the statement's error callback left
\* out: the promise resolves although the statement failed
PromiseSwallowing(opened, fails, value) ==
  IF ~opened THEN Rejected ELSE Resolved(value)

\* new Promise((resolve, reject) => { if (!db) { reject(...); return; }
\* db.transaction(tx => tx.executeSql(..., success => resolve(value),
\* error => reject(error))) })
RepositoryPromise(opened, fails, value) ==
  IF ~opened THEN Rejected
  ELSE IF fails THEN Rejected
  ELSE Resolved(value)

\* WHERE date >= startDate AND date <= endDate, for startDate the first
\* instant of the month and endDate the last millisecond of its last day
InMonth(table, year, month) ==
  {r \in table : /\ r.date >= DateFromParts(year, month - 1, 1)
                 /\ r.date <= DateFromParts(year, month, 0) + (DayTicks - 1)}

\* the records the model has: what the messages extract to
Records == {e[3] : e \in ParseTable} \ {null}

Logged(fn, args, result) ==
  /\ Len(calls) < MaxCalls
  /\ calls' = Append(calls, [fn |-> fn, args |-> args, at |-> now,
                             result |-> result])

\* initDb: openDatabase, then CREATE TABLE IF NOT EXISTS in a transaction
\* whose error callback rejects and whose success callback resolves; the
\* handle is assigned before the statement runs
CallInitDb(settled) ==
  /\ ~db
  /\ ~dbFails => settled = "resolved"
  /\ db' = TRUE
  /\ Logged("initDb", <<>>, [settled |-> settled])
  /\ UNCHANGED <<envVars, readerVars, polls, delivered, procs, unhandled,
                 storeVars, uiVars, input>>

CallInsertTransaction(tx) ==
  /\ Logged("insertTransaction", tx, RepositoryPromise(db, dbFails, "undefined"))
  /\ rows' = IF RepositoryPromise(db, dbFails, "undefined") = Rejected THEN rows
             ELSE insertTransaction(rows, tx)
  /\ UNCHANGED <<envVars, readerVars, polls, delivered, procs, unhandled,
                 autoConfirmValue, flagWrites, pendingValue, transactions,
                 uiVars, db, input>>

CallTransactionExists(id) ==
  /\ Logged("transactionExists", id,
            RepositoryPromise(db, dbFails, transactionExists(rows, id)))
  /\ UNCHANGED <<envVars, readerVars, polls, delivered, procs, unhandled,
                 storeVars, uiVars, db, input>>

\* fetchTransactions(limit, offset)
CallFetchTransactions(listing, limit, offset) ==
  /\ listing \in Listings(rows)
  /\ Logged("fetchTransactions", <<limit, offset>>,
            RepositoryPromise(db, dbFails, LimitOffset(listing, limit, offset)))
  /\ UNCHANGED <<envVars, readerVars, polls, delivered, procs, unhandled,
                 storeVars, uiVars, db, input>>

\* fetchTransactionsByMonth(year, month)
CallFetchTransactionsByMonth(listing, year, month) ==
  /\ listing \in Listings(InMonth(rows, year, month))
  /\ Logged("fetchTransactionsByMonth", <<year, month>>,
            RepositoryPromise(db, dbFails, listing))
  /\ UNCHANGED <<envVars, readerVars, polls, delivered, procs, unhandled,
                 storeVars, uiVars, db, input>>

(***************************************************************************)
(* getAutoConfirmSetting (services/smsService.ts), called on its own with   *)
(* the item sms_auto_confirm holding the value of input.                   *)
(***************************************************************************)
\* what the item may hold: nothing ("absent": getItem answers null), what
\* setAutoConfirmSetting writes, and what only another writer could leave
PolicyInputs ==
  {<<value>> : value \in {"absent", "false", "true", "False", "FALSE",
                          " false", "0", ""}}

CallGetAutoConfirmSetting ==
  /\ Len(input) = 1
  /\ Logged("getAutoConfirmSetting", <<input[1], kvFails>>,
            getAutoConfirmSetting(input[1], kvFails))
  /\ UNCHANGED <<envVars, readerVars, polls, delivered, procs, unhandled,
                 storeVars, uiVars, db, input>>

(***************************************************************************)
(* Field Extractor (services/smsParser.ts), called on its own with the     *)
(* (sender, body) of input, at whatever the clock shows.                   *)
(***************************************************************************)
MaxExtractions == 2 \* calls of parseSmsToTransaction logged

\* the sender of the bodies below
SampleSender == "VM-HDFCBK"

\* bodies with a valid amount and the dates, in words and in figures, that
\* step 3 of the extractor looks for
DateBodies ==
  {"Rs 100 debited",
   "Rs 100 debited on 05/01/2024",
   "Rs 100 debited on 05-01-2024",
   "Rs 100 debited on 2024-01-05",
   "Rs 100 debited 2024-01-03 ref 05/01/2024",
   "Rs 100 debited 04-01-2024 ref 05/01/2024",
   "Rs 100 debited 2024-01-03 ref 05-01-2024",
   "Rs 100 debited today",
   "Rs 100 debited Yesterday",
   "Rs 100 debited on 05/01/2024 today",
   "Rs 100 debited yesterday on 2024-01-05"}

\* numeric literals as a message may write them after a currency marker, each
\* with the number parseFloat makes of it once the commas are gone, as
\* JavaScript prints it
LiteralValues ==
  {<<"500", "500">>, <<"1,234.50", "1234.5">>, <<"0.5", "0.5">>,
   <<"12.", "12">>, <<"1,00,000", "100000">>, <<"007", "7">>,
   <<"0", "0">>, <<"0.00", "0">>, <<",", "NaN">>}

\* bodies whose first marker-number occurrence is marker, gap, literal: each
\* body with the value of that literal
AmountCases ==
  {<<prefix \o marker \o gap \o lit[1] \o suffix, lit[2]>> :
     prefix \in {"", "A/c 1234 "},
     marker \in {"INR", "Rs", "₹", "rs", "Inr"},
     gap \in {"", " "},
     lit \in LiteralValues,
     suffix \in {"", " debited", " then Rs 9"}}

AmountBodies == {c[1] : c \in AmountCases}

\* bodies in which no marker is followed by a number
UnmarkedBodies ==
  {"", "Your OTP is 1234", "USD 20 paid", "Rs. 500 debited", "Rs debited 500",
   "500 Rs", "INR", "$ 1,234.50 spent"}

\* bodies with a valid amount and the words step 2 of the extractor looks for:
\* keywords of one set, of both, of neither, and the substrings "credit" and
\* "debit" inside and outside the keywords
DirectionBodies ==
  {"Rs 100 spent at shop",
   "Rs 100 withdrawn, transaction done",
   "Rs 100 received from A",
   "Rs 100 DEPOSITED",
   "Rs 100 at shop",
   "Rs 100 credited, reversal of amount debited",
   "Rs 100 debited, to be credited to B",
   "RS 100 CREDITED AFTER DEBITED",
   "Rs 100 debited for purchase, refund in 3 days",
   "Rs 100 credited, paid by B",
   "Rs 100 refund for purchase",
   "Rs 100 credit card bill debited",
   "Rs 100 credit note against debit note",
   "Rs 100 refund to credit card, not debit card",
   "Rs 100 spent, credit limit left, debit card",
   "Rs 100 debit card used, credit refund"}

\* senders that contain one short code of the bank table, several, or none,
\* in either case of letters and of lengths around 20
BankSenders ==
  {"VM-HDFCBK", "AX-ICICI", "sbiinb", "AD-AXISBK", "KOTAKB", "PNBSMS",
   "BOIIND", "BOBTXN", "Canara", "UNIONB",
   "SBI-HDFC", "UNION-PNB-AXIS", "BOBOI", "XXXXXXXXXXXXXXXXXXXXXX-Hdfc",
   "AD-PROMO", "", "+919876543210", "Hd-fc",
   "ABCDEFGHIJKLMNOPQRST", "ABCDEFGHIJKLMNOPQRSTU", "abcdefghijklmnopqrstuvwxyz"}

ExtractorInputs ==
  {<<SampleSender, body>> :
     body \in DateBodies \cup AmountBodies \cup UnmarkedBodies \cup DirectionBodies}
  \cup {<<sender, "Rs 100 debited">> : sender \in BankSenders}

CallParseSmsToTransaction ==
  /\ Len(input) = 2
  /\ Len(calls) < MaxExtractions
  /\ calls' = Append(calls, [fn |-> "parseSmsToTransaction", args |-> input,
                             at |-> now,
                             result |-> parseSmsToTransaction(input[1],
                                                              input[2], now)])
  /\ UNCHANGED <<envVars, readerVars, polls, delivered, procs, unhandled,
                 storeVars, uiVars, db, input>>

(***************************************************************************)
(* Identity Generator, called on its own with the (sender, amount,         *)
(* timestamp) of input, the numbers as the template string renders them.   *)
(***************************************************************************)
IdentityInputs ==
  {<<sender, amount, timestamp>> :
     sender \in {"VM-HDFCBK", "AX-ICICI", "AD-PROMO", "A", ""},
     amount \in {"100", "1234.5", "0.5", "500"},
     timestamp \in {"39454", "39457", "39458", "1704412800000", "0"}}

CallGenerateTransactionId ==
  /\ Len(input) = 3
  /\ Len(calls) < MaxExtractions
  /\ calls' = Append(calls, [fn |-> "generateTransactionId", args |-> input,
                             at |-> now,
                             result |-> generateTransactionId(input[1],
                                                              input[2],
                                                              input[3])])
  /\ UNCHANGED <<envVars, readerVars, polls, delivered, procs, unhandled,
                 storeVars, uiVars, db, input>>

(***************************************************************************)
(* The specification.                                                      *)
(***************************************************************************)
Clock == ClockTick

Inbox == \E m \in Messages : SmsArrives(m)

Faults == DbFaultToggles \/ KvFaultToggles

Lifecycle ==
  \/ StartSmsListener
  \/ \E hasPermission \in BOOLEAN : StartSmsListenerResumes(hasPermission)
  \/ StopSmsListener

Polling ==
  \/ \E timer \in timers : PollForNewSms(timer)
  \/ \E k \in DOMAIN polls : PollFails(k)
  \/ \E k \in DOMAIN polls : PollSucceeds(k)

Direct == \E m \in Messages : HandleIncomingSms(m)

Coordinator ==
  \E i \in DOMAIN procs :
    \/ ProcExists(i)
    \/ ProcSetting(i)
    \/ ProcInsert(i)
    \/ ProcPublish(i)
    \/ ProcGetPending(i)
    \/ ProcSetPending(i)

Review ==
  \/ LoadPendingTransactions
  \/ \E tx \in Range(pendingTransactions) : HandleConfirm(tx)
  \/ \E tx \in Range(pendingTransactions) : HandleReject(tx)
  \/ \E i \in DOMAIN uiOps :
       \/ ConfirmInsert(i)
       \/ RemoveGetPending(i)
       \/ RemoveSetPending(i)
       \/ ConfirmAddTransaction(i)
       \/ ReloadPending(i)

Settings == \E v \in BOOLEAN : SetAutoConfirmSetting(v)

Next ==
  \/ Clock \/ Inbox \/ Faults \/ Lifecycle \/ Polling \/ Direct
  \/ Coordinator \/ Review \/ Settings

Spec == Init /\ [][Next]_vars

\* the Message Source with the coordinator behind it: the inbox fills, the
\* listener is started and stopped, the timer polls
NextReader == Clock \/ Inbox \/ Lifecycle \/ Polling \/ Coordinator

SpecReader == Init /\ [][NextReader]_vars

\* the coordinator fed by hand-offs while the storage layers fail and the
\* auto-confirm switch is moved
NextIngest ==
  \/ Clock \/ Faults \/ Lifecycle \/ Direct \/ Coordinator \/ Settings

SpecIngest == Init /\ [][NextIngest]_vars

\* the review screen over what the coordinator staged
NextReview ==
  \/ Clock \/ Faults \/ Lifecycle \/ Direct \/ Coordinator \/ Settings \/ Review

SpecReview == Init /\ [][NextReview]_vars

\* the coordinator called again only after its earlier call has ended
DirectWhenIdle == procs = <<>> /\ Direct

NextSerial == Clock \/ Lifecycle \/ DirectWhenIdle \/ Coordinator

SpecSerial == Init /\ [][NextSerial]_vars

\* the review screen over a coordinator whose calls never overlap
NextSerialReview ==
  \/ Clock \/ Faults \/ Lifecycle \/ DirectWhenIdle \/ Coordinator
  \/ Settings \/ Review

SpecSerialReview == Init /\ [][NextSerialReview]_vars

\* the Add Expense screen
Manual ==
  \/ \E values \in FormValues : HandleSubmit(values)
  \/ \E i \in DOMAIN uiOps : SubmitInsert(i) \/ SubmitAddTransaction(i)

\* the dashboard's refresh
Refresh ==
  \/ RefreshFromDb
  \/ \E i \in DOMAIN uiOps :
       \/ \E listing \in Listings(rows) : RefreshFetch(i, listing)
       \/ RefreshSet(i)

\* every writer of the Repository and of the in-memory store: the
\* coordinator, the review screen, manual entry and refresh
\* the listener is started and stays on
Listen ==
  \/ StartSmsListener
  \/ \E hasPermission \in BOOLEAN : StartSmsListenerResumes(hasPermission)

\* a message from which a record is extracted is handed over
DirectExtracted == \E m \in Messages \ Unextracted : HandleIncomingSms(m)

NextStores ==
  \/ Clock \/ DbFaultToggles \/ Listen \/ DirectExtracted \/ Coordinator
  \/ Review \/ Manual \/ Refresh

SpecStores == Init /\ [][NextStores]_vars

\* the coordinator and the review screen taking turns: a message is handed
\* over, and a handler of the screen is started, only when no call of either
\* is in flight, while the storage layers start and stop failing
DirectInTurn == procs = <<>> /\ uiOps = <<>> /\ DirectExtracted

ReviewInTurn == procs = <<>> /\ Review

NextInTurn ==
  \/ Clock \/ Faults \/ Listen \/ DirectInTurn \/ Coordinator \/ ReviewInTurn

SpecInTurn == Init /\ [][NextInTurn]_vars

\* the Message Source whose start is called up to MaxRestarts times, also
\* while an earlier call awaits the permission
StartSmsListenerAgain == starts < MaxRestarts /\ StartSmsListenerCall

Restarts ==
  \/ StartSmsListenerAgain
  \/ \E hasPermission \in BOOLEAN : StartSmsListenerResumes(hasPermission)
  \/ StopSmsListener

NextRestarts == Clock \/ Inbox \/ Restarts \/ Polling \/ Coordinator

SpecRestarts == Init /\ [][NextRestarts]_vars

\* the coordinator handed, one call after the other, two messages that
\* differ in their bodies only
DirectTwin == procs = <<>> /\ \E m \in Twins : HandleIncomingSms(m)

NextTwins == Clock \/ Listen \/ DirectTwin \/ Coordinator \/ Settings

SpecTwins == Init /\ [][NextTwins]_vars

\* the Message Source whose ticks overlap: a timer fires again while the
\* inbox callback of an earlier tick is due, and the callbacks come in any
\* order
PollForNewSmsAgain(timer) ==
  Len(polls) < MaxOverlap /\ PollForNewSmsCall(timer)

PollingOverlapped ==
  \/ \E timer \in timers : PollForNewSmsAgain(timer)
  \/ \E k \in DOMAIN polls : PollFails(k)
  \/ \E k \in DOMAIN polls : PollSucceeds(k)

NextOverlap == Clock \/ Inbox \/ Lifecycle \/ PollingOverlapped \/ Coordinator

SpecOverlap == Init /\ [][NextOverlap]_vars

\* the coordinator handed messages of every kind, also those from which no
\* record is extracted
DirectAny == \E m \in Messages \cup Unextracted : HandleIncomingSms(m)

NextDiscard == Clock \/ Lifecycle \/ DirectAny \/ Coordinator \/ Settings

SpecDiscard == Init /\ [][NextDiscard]_vars

\* the Message Source whole: the timer polls and messages are handed over
\* directly
NextListener ==
  Clock \/ Inbox \/ Lifecycle \/ Polling \/ Direct \/ Coordinator

SpecListener == Init /\ [][NextListener]_vars

\* the Field Extractor called on its own, up to MaxExtractions times while
\* the clock advances
InitExtractor ==
  /\ ModuleLoad
  /\ os = "android"
  /\ autoConfirmValue = "absent"
  /\ db = TRUE
  /\ input \in ExtractorInputs
  /\ calls = <<>>

NextExtractor == Clock \/ CallParseSmsToTransaction

SpecExtractor == InitExtractor /\ [][NextExtractor]_vars

\* the Identity Generator called on its own while the clock advances
InitIdentity ==
  /\ ModuleLoad
  /\ os = "android"
  /\ autoConfirmValue = "absent"
  /\ db = TRUE
  /\ input \in IdentityInputs
  /\ calls = <<>>

NextIdentity == Clock \/ CallGenerateTransactionId

SpecIdentity == InitIdentity /\ [][NextIdentity]_vars

\* getAutoConfirmSetting called on its own while AsyncStorage starts and
\* stops failing
InitPolicy ==
  /\ ModuleLoad
  /\ os = "android"
  /\ autoConfirmValue = "absent"
  /\ db = TRUE
  /\ input \in PolicyInputs
  /\ calls = <<>>

NextPolicy == Clock \/ KvFaultToggles \/ CallGetAutoConfirmSetting

SpecPolicy == InitPolicy /\ [][NextPolicy]_vars

\* the Repository called on its own, from module load on, while its
\* statements start and stop failing
InitRepository ==
  /\ ModuleLoad
  /\ os = "android"
  /\ autoConfirmValue = "absent"
  /\ db = FALSE
  /\ input = NoInput
  /\ calls = <<>>

Repository ==
  \/ \E settled \in {"resolved", "rejected"} : CallInitDb(settled)
  \/ \E tx \in Records : CallInsertTransaction(tx)
  \/ \E id \in Ids(Records) : CallTransactionExists(id)
  \/ \E listing \in UNION {Listings(S) : S \in SUBSET rows},
        limit \in {1, 100}, offset \in {0, 1} :
       CallFetchTransactions(listing, limit, offset)
  \/ \E listing \in UNION {Listings(S) : S \in SUBSET rows},
        month \in {1, 12} :
       CallFetchTransactionsByMonth(listing, IF month = 1 THEN 2024 ELSE 2023,
                                    month)

NextRepository == Faults \/ Repository

SpecRepository == InitRepository /\ [][NextRepository]_vars

(***************************************************************************)
(* What the properties below speak of.                                     *)
(***************************************************************************)
\* description: body.trim(), the field by which a record tells its message
Description == [m \in Messages |-> trim(m[2])]

Extracts(m) == \E t \in Times : Parsed(m, t) # null

\* how often (sender, body) was handed to processIncomingSms
TimesDelivered(m) ==
  Cardinality({i \in DOMAIN delivered :
                 delivered[i].sender = m[1] /\ delivered[i].body = m[2]})

InRepository(m) == {r \in rows : r.description = Description[m]}

Staged(m) ==
  {i \in DOMAIN pendingValue : pendingValue[i].description = Description[m]}

\* the processIncomingSms calls that wait at pc
ProcsAt(pc) == Cardinality({i \in DOMAIN procs : procs[i].pc = pc})

\* the confirms and rejects that wait at pc
OpsAt(pc) == Cardinality({i \in DOMAIN uiOps : uiOps[i].pc = pc})

\* the rejects in flight
RejectOps(ops) == SelectSeq(ops, LAMBDA op : op.kind = "reject")

\* the entries dated after the watermark
Newer(entries, watermark) == SelectSeq(entries, LAMBDA e : e.date > watermark)

(***************************************************************************)
(* C1.  Idempotent ingestion: with the auto-confirm flag held constant, a  *)
(* message that extracts to a record and was run through                   *)
(* processIncomingSms twice, one call after the other, has exactly one     *)
(* record in the Repository (flag true) or exactly one record in the       *)
(* Staging Queue (flag false).                                             *)
(***************************************************************************)
C1IdempotentIngestion ==
  \A m \in Messages :
    (procs = <<>> /\ Extracts(m) /\ TimesDelivered(m) = 2) =>
      IF getAutoConfirmSetting(autoConfirmValue, FALSE)
      THEN Cardinality(InRepository(m)) = 1
      ELSE Cardinality(Staged(m)) = 1

(***************************************************************************)
(* C2.  The Repository holds at most one record per identity, and an       *)
(* insert whose identity is already stored is a silent no-op: every stored *)
(* record stays as it is, the Repository changes only by gaining one       *)
(* record of a new identity, and an INSERT that ran while the database     *)
(* works lets its caller go on (the coordinator to the publish, the        *)
(* confirm to the removal) instead of ending in the catch.                 *)
(***************************************************************************)
C2RepositoryIdentity ==
  /\ [](\A r1, r2 \in rows : r1.id = r2.id => r1 = r2)
  /\ [][/\ \A r \in rows : r \in rows'
        /\ rows' # rows =>
             \E tx \in rows' : tx.id \notin Ids(rows) /\ rows' = rows \cup {tx}
        /\ (~dbFails /\ ProcsAt("insert")' < ProcsAt("insert")) =>
             ProcsAt("publish")' > ProcsAt("publish")
        /\ (~dbFails /\ OpsAt("insert")' < OpsAt("insert")) =>
             OpsAt("getPending")' > OpsAt("getPending")]_vars

\* an insert met a stored record of its identity with other field values
\* and went on
C2CollisionIgnored ==
  \/ \E i \in DOMAIN procs :
       /\ procs[i].pc = "publish"
       /\ procs[i].tx \notin rows
       /\ procs[i].tx.id \in Ids(rows)
  \/ \E i \in DOMAIN uiOps :
       /\ uiOps[i].kind = "confirm" /\ uiOps[i].pc = "getPending"
       /\ uiOps[i].tx \notin rows
       /\ uiOps[i].tx.id \in Ids(rows)

(***************************************************************************)
(* C3.  No identity is at the same time in the Staging Queue and in the    *)
(* Repository.  Stated for the states in which no call of the coordinator  *)
(* and no confirm or reject is in flight and no storage layer has failed,  *)
(* which leaves out the window of a confirm between its insert and its     *)
(* removal.                                                                *)
(***************************************************************************)
C3StagedNotInRepository ==
  (procs = <<>> /\ uiOps = <<>> /\ faults = 0) =>
    Ids(Range(pendingValue)) \cap Ids(rows) = {}

(***************************************************************************)
(* C4.  Routing by the policy flag, while no storage layer fails: the      *)
(* coordinator takes the insert branch exactly when the flag is not        *)
(* "false"; the insert branch puts the identity into the Repository, then  *)
(* publishes the record at the head of the in-memory list, and leaves the  *)
(* Staging Queue alone; the other branch leaves the record at the end of   *)
(* the Staging Queue and leaves the Repository and the in-memory list      *)
(* alone; and the identity of a staged record enters the Repository only   *)
(* by the insert of a confirm of it.                                       *)
(***************************************************************************)
C4RoutingByFlag ==
  [][faults = 0 =>
       /\ \A i \in DOMAIN procs :
            /\ ProcSetting(i) =>
                 procs'[i].pc = IF autoConfirmValue # "false"
                                THEN "insert" ELSE "getPending"
            /\ ProcInsert(i) =>
                 /\ procs[i].tx.id \in Ids(rows')
                 /\ UNCHANGED <<pendingValue, transactions>>
            /\ ProcPublish(i) =>
                 /\ transactions' = <<procs[i].tx>> \o transactions
                 /\ UNCHANGED <<pendingValue, rows>>
            /\ ProcSetPending(i) =>
                 /\ pendingValue' # <<>>
                 /\ pendingValue'[Len(pendingValue')] = procs[i].tx
                 /\ UNCHANGED <<rows, transactions>>
       /\ \A tx \in Range(pendingValue) :
            (tx.id \notin Ids(rows) /\ tx.id \in Ids(rows')) =>
              \E j \in DOMAIN uiOps :
                /\ uiOps[j].kind = "confirm" /\ uiOps[j].pc = "insert"
                /\ uiOps[j].tx.id = tx.id]_vars

(***************************************************************************)
(* C5.  The coordinator handles messages strictly one at a time: at most   *)
(* one call of processIncomingSms is in flight.                            *)
(***************************************************************************)
C5OneAtATime == Len(procs) <= 1

(***************************************************************************)
(* C6.  Confirm transition.  At every step of a confirm the record's       *)
(* identity is in the Staging Queue or in the Repository; the removal      *)
(* starts only after the insert put the identity into the Repository; and  *)
(* once the removal was written the record is in the Repository with the   *)
(* field values it was staged with and its identity is no longer staged.   *)
(* Stated for the runs in which no storage layer has failed.               *)
(***************************************************************************)
C6ConfirmTransition ==
  \A i \in DOMAIN uiOps :
    (faults = 0 /\ uiOps[i].kind = "confirm") =>
      /\ uiOps[i].tx.id \in Ids(rows) \cup Ids(Range(pendingValue))
      /\ uiOps[i].pc # "insert" => uiOps[i].tx.id \in Ids(rows)
      /\ uiOps[i].pc \in {"addTransaction", "reload"} =>
           /\ uiOps[i].tx \in rows
           /\ uiOps[i].tx.id \notin Ids(Range(pendingValue))

C8Cancellation ==
  [][/\ (stops' # stops /\ listenerActive) =>
          /\ ~listenerActive' /\ ~onNewTransactionCallback'
          /\ pollingInterval' = 0 /\ pollingInterval \notin timers'
     /\ (~listenerActive /\ Len(polls') < Len(polls)) =>
          UNCHANGED <<delivered, procs, readerVars>>]_vars

(***************************************************************************)
(* C9.  Polling tick: a poll reads the 10 most recent inbox entries at     *)
(* most; when its inbox callback fires with the listener active it passes  *)
(* to the callback exactly the entries whose date is greater than the      *)
(* watermark, in the order the inbox returned them, and then the watermark *)
(* is the greatest date among them; with no such entry nothing is passed   *)
(* and the watermark stays.                                                *)
(***************************************************************************)
C9PollingTick ==
  /\ [](\A k \in DOMAIN polls : Len(polls[k]) <= 10)
  /\ [][/\ Len(polls') > Len(polls) =>
             polls'[Len(polls')] = SubSeq(inbox, 1, Min2(10, Len(inbox)))
        /\ \A k \in DOMAIN polls :
             (listenerActive /\ onNewTransactionCallback /\ PollSucceeds(k)) =>
               /\ Len(delivered') = Len(delivered) + Len(Newer(polls[k], lastSmsTimestamp))
               /\ \A i \in 1..Len(Newer(polls[k], lastSmsTimestamp)) :
                    /\ delivered'[Len(delivered) + i].id =
                         Newer(polls[k], lastSmsTimestamp)[i].id
                    /\ delivered'[Len(delivered) + i].sender =
                         Newer(polls[k], lastSmsTimestamp)[i].address
                    /\ delivered'[Len(delivered) + i].body =
                         Newer(polls[k], lastSmsTimestamp)[i].body
               /\ SubSeq(delivered', 1, Len(delivered)) = delivered
               /\ IF Newer(polls[k], lastSmsTimestamp) = <<>>
                  THEN lastSmsTimestamp' = lastSmsTimestamp
                  ELSE /\ \E e \in Range(Newer(polls[k], lastSmsTimestamp)) :
                            lastSmsTimestamp' = e.date
                       /\ \A e \in Range(Newer(polls[k], lastSmsTimestamp)) :
                            e.date <= lastSmsTimestamp']_vars

\* a tick has passed the newest entry of an inbox of more than 10 entries
\* and holds its date as the watermark, while entries of its batch that were
\* not newer than the watermark were not passed
C9Ticked ==
  /\ Len(inbox) > 10
  /\ listenerActive
  /\ delivered # <<>>
  /\ delivered[Len(delivered)].id = inbox[1].id
  /\ lastSmsTimestamp = inbox[1].date
  /\ lastSmsTimestamp > StartTime
  /\ Len(delivered) < 10

(***************************************************************************)
(* C10.  A storage failure while a message is ingested stays inside the    *)
(* coordinator: no rejection ever leaves processIncomingSms, and a step of *)
(* the coordinator changes nothing of the listener (active flag, callback, *)
(* timers, watermark, polls in flight) and ends at most its own call,      *)
(* leaving every other call in flight as it was.                           *)
(***************************************************************************)
C10FailureContained ==
  /\ [](~unhandled)
  /\ [][(procs' # procs /\ delivered' = delivered) =>
          /\ UNCHANGED <<readerVars, polls>>
          /\ \E i \in DOMAIN procs :
               \/ procs' = RemoveAt(procs, i)
               \/ /\ Len(procs') = Len(procs)
                  /\ \A j \in DOMAIN procs : j # i => procs'[j] = procs[j]]_vars

\* the first message handed over ran into a failing database and left no
\* record; the listener is still active and the next message, handed over
\* later, has its record in the Repository
C10Recovered ==
  /\ listenerActive /\ onNewTransactionCallback
  /\ faults > 0 /\ ~dbFails
  /\ procs = <<>>
  /\ Len(delivered) = 2
  /\ \E m1, m2 \in Messages :
       /\ m1 # m2 /\ Extracts(m1)
       /\ delivered[1].sender = m1[1] /\ delivered[1].body = m1[2]
       /\ delivered[2].sender = m2[1] /\ delivered[2].body = m2[2]
       /\ InRepository(m1) = {} /\ Staged(m1) = {}
       /\ InRepository(m2) # {}
       /\ \E k \in DOMAIN transactions : transactions[k] \in InRepository(m2)

\* the functions of the Repository that C11 names
RepositoryOperations ==
  {"insertTransaction", "transactionExists", "fetchTransactions",
   "fetchTransactionsByMonth"}

(***************************************************************************)
(* C11.  Repository operations never swallow a storage failure: a call of  *)
(* insert, exists, list or listByMonth made while the database handle is   *)
(* null or while its statement fails ends in a rejected promise, never in  *)
(* a resolved one, and leaves the stored records as they were.             *)
(***************************************************************************)
C11FailuresPropagate ==
  [][(/\ Len(calls') = Len(calls) + 1
      /\ calls'[Len(calls')].fn \in RepositoryOperations
      /\ (~db \/ dbFails)) =>
       /\ calls'[Len(calls')].result.settled = "rejected"
       /\ rows' = rows]_vars

\* with records stored, an insert of a new record met a failing statement
\* and was rejected, and a listing asked for before the database was opened
\* was rejected too
C11Propagated ==
  /\ rows # {}
  /\ db /\ dbFails
  /\ Len(calls) = MaxCalls
  /\ calls[1].fn = "fetchTransactions"
  /\ calls[1].result.settled = "rejected"
  /\ calls[MaxCalls].fn = "insertTransaction"
  /\ calls[MaxCalls].result.settled = "rejected"
  /\ calls[MaxCalls].args.id \notin Ids(rows)

\* the log entries of messages from which no record is extracted
IsUnextracted(d) == \E m \in Unextracted : d.sender = m[1] /\ d.body = m[2]

(***************************************************************************)
(* C12.  A message from which no record is extracted (no currency marker   *)
(* followed by a number, or an amount that is not a positive number) is    *)
(* discarded silently: the step that hands it to the coordinator leaves no *)
(* call in flight, lets no rejection out and leaves the Repository, the    *)
(* Staging Queue and the in-memory list as they were.                      *)
(***************************************************************************)
C12Discarded ==
  [][(/\ Len(delivered') = Len(delivered) + 1
      /\ IsUnextracted(delivered'[Len(delivered')])) =>
       /\ procs' = procs
       /\ unhandled' = unhandled
       /\ UNCHANGED <<rows, pendingValue, transactions>>]_vars

\* a message with a zero amount and one with no number were handed over and
\* nothing is stored, staged, published or in flight
C12NothingKept ==
  /\ Len(delivered) = 2
  /\ delivered[1].body = MsgZero[2]
  /\ delivered[2].body = MsgComma[2]
  /\ procs = <<>>
  /\ rows = {} /\ pendingValue = <<>> /\ transactions = <<>>
  /\ ~unhandled

(***************************************************************************)
(* C13.  startSmsListener on a platform other than android, or with the    *)
(* permission answered no, is a no-op: it changes nothing of the listener  *)
(* (active flag, callback, watermark, timer handle, timers); on a platform *)
(* other than android the listener is never active, no timer runs, no      *)
(* callback is stored and nothing is ever delivered; and while the         *)
(* listener is not active neither a poll nor handleIncomingSms passes a    *)
(* message on.                                                             *)
(***************************************************************************)
C13StartRefused ==
  /\ [](os # "android" =>
          /\ ~listenerActive /\ ~onNewTransactionCallback
          /\ timers = {} /\ pollingInterval = 0
          /\ polls = <<>> /\ delivered = <<>>)
  /\ [][/\ (starts' # starts /\ os # "android") =>
             UNCHANGED <<listenerActive, onNewTransactionCallback,
                         lastSmsTimestamp, pollingInterval, timers, starting>>
        /\ StartSmsListenerResumes(FALSE) =>
             UNCHANGED <<listenerActive, onNewTransactionCallback,
                         lastSmsTimestamp, pollingInterval, timers>>
        /\ ~listenerActive => delivered' = delivered]_vars

\* on android the one call of startSmsListener was answered no: a message
\* has arrived since and messages were handed over, and nothing was
\* delivered
C13Refused ==
  /\ os = "android"
  /\ starts = 1 /\ starting = 0 /\ stops = 0
  /\ ~listenerActive /\ ~onNewTransactionCallback
  /\ timers = {} /\ pollingInterval = 0
  /\ Len(inbox) > OldCount
  /\ directs = MaxDirect
  /\ delivered = <<>>

(***************************************************************************)
(* C14.  Extracting the same (sender, body) at two different processing    *)
(* times yields the same identity, for every message that extracts to a    *)
(* record: any two logged extractions of one input that gave a record gave *)
(* records of one identity.                                                *)
(***************************************************************************)
C14IdentityStable ==
  \A i, j \in DOMAIN calls :
    (/\ calls[i].fn = "parseSmsToTransaction"
     /\ calls[j].fn = "parseSmsToTransaction"
     /\ calls[i].args = calls[j].args
     /\ calls[i].result # null /\ calls[j].result # null) =>
      calls[i].result.id = calls[j].result.id

\* what C19 gives as occurredAt for each body of DateBodies, for an
\* extraction at time t: the date of the first pattern, in the order
\* DD/MM/YYYY, DD-MM-YYYY, YYYY-MM-DD, that matches; with no pattern, t for
\* "today" and a day before t for "yesterday"; else t
OccurredAt(body, t) ==
  CASE body = "Rs 100 debited" -> t
    [] body = "Rs 100 debited on 05/01/2024" -> DateFromParts(2024, 0, 5)
    [] body = "Rs 100 debited on 05-01-2024" -> DateFromParts(2024, 0, 5)
    [] body = "Rs 100 debited on 2024-01-05" -> DateFromParts(2024, 0, 5)
    [] body = "Rs 100 debited 2024-01-03 ref 05/01/2024" ->
         DateFromParts(2024, 0, 5)
    [] body = "Rs 100 debited 04-01-2024 ref 05/01/2024" ->
         DateFromParts(2024, 0, 5)
    [] body = "Rs 100 debited 2024-01-03 ref 05-01-2024" ->
         DateFromParts(2024, 0, 5)
    [] body = "Rs 100 debited today" -> t
    [] body = "Rs 100 debited Yesterday" -> t - DayTicks
    [] body = "Rs 100 debited on 05/01/2024 today" -> DateFromParts(2024, 0, 5)
    [] body = "Rs 100 debited yesterday on 2024-01-05" ->
         DateFromParts(2024, 0, 5)

(***************************************************************************)
(* C19.  Date detection precedence: occurredAt is the date of the first    *)
(* of the three patterns, in their fixed order, that matches the body; the *)
(* words "today" and "yesterday" count only when no pattern matches; with  *)
(* neither, occurredAt is the processing time.  Every logged extraction of *)
(* a body of DateBodies gave a record with that date.                      *)
(***************************************************************************)
C19DatePrecedence ==
  \A i \in DOMAIN calls :
    (/\ calls[i].fn = "parseSmsToTransaction"
     /\ calls[i].args[2] \in DateBodies) =>
      /\ calls[i].result # null
      /\ calls[i].result.date = OccurredAt(calls[i].args[2], calls[i].at)

\* x + y wrapped to a signed 32-bit integer, for x and y in that range
RefAdd32(x, y) ==
  IF x > 0 /\ y > 0 /\ x > 2147483647 - y
  THEN ((x - 2147483647) - 1) + ((y - 2147483647) - 1)
  ELSE IF x < 0 /\ y < 0 /\ x < (0 - 2147483647 - 1) - y
  THEN ((x + 2147483647) + 1) + ((y + 2147483647) + 1)
  ELSE x + y

RefDouble(x) == RefAdd32(x, x)

\* x * 31 = 16x + 8x + 4x + 2x + x, wrapped to a signed 32-bit integer
RefTimes31(x) ==
  LET x2  == RefDouble(x)
      x4  == RefDouble(x2)
      x8  == RefDouble(x4)
      x16 == RefDouble(x8)
  IN RefAdd32(RefAdd32(RefAdd32(RefAdd32(x16, x8), x4), x2), x)

\* accumulator * 31 + charCode, wrapped
RefStep(acc, code) ==
  IF acc = 0 THEN code ELSE RefAdd32(RefTimes31(acc), code)

RECURSIVE RefFold(_, _)
\* the accumulator after the first i characters
RefFold(str, i) ==
  IF i = 0 THEN 0
  ELSE RefStep(RefFold(str, i - 1), charCodeAt(CharAt(str, i)))

RECURSIVE RefBase36(_)
RefBase36(n) ==
  IF n < 36 THEN CharAt(Base36Digits, n + 1)
  ELSE RefBase36(n \div 36) \o CharAt(Base36Digits, (n % 36) + 1)

\* the absolute value in base 36; that of -2^31 is 2^31, "zik0zk"
RefAbsBase36(acc) ==
  IF acc = 0 - 2147483647 - 1 THEN "zik0zk"
  ELSE IF acc < 0 THEN RefBase36(0 - acc)
  ELSE RefBase36(acc)

RefJoined(args) == args[1] \o "_" \o args[2] \o "_" \o args[3]

RefIdentity(args) ==
  "tx_" \o RefAbsBase36(RefFold(RefJoined(args), Len(RefJoined(args))))

(***************************************************************************)
(* C15.  identity(sender, amount, timestamp) equals the reference: the     *)
(* three inputs joined into one string, accumulator = accumulator * 31 +   *)
(* charCode folded over its characters and wrapped to a signed 32-bit      *)
(* integer after every step, the absolute value rendered in base 36, the   *)
(* tag put in front.  Every logged call returned the reference's value of  *)
(* its arguments, whenever and in whatever order it was made.              *)
(***************************************************************************)
C15IdentityReference ==
  \A i \in DOMAIN calls :
    calls[i].fn = "generateTransactionId" =>
      calls[i].result = RefIdentity(calls[i].args)

\* the identity of arguments whose accumulator ends negative was computed
\* at two different times
C15ComputedTwice ==
  /\ Len(calls) = 2
  /\ calls[1].fn = "generateTransactionId"
  /\ calls[1].at # calls[2].at
  /\ calls[1].result = calls[2].result
  /\ RefFold(RefJoined(calls[1].args), Len(RefJoined(calls[1].args))) < 0

EarlierSubstring(low) ==
  IF includes(low, "credit") /\ includes(low, "debit")
  THEN (IF indexOf(low, "credit") < indexOf(low, "debit")
        THEN {"credit"} ELSE {"debit"})
  ELSE IF includes(low, "credit") THEN {"credit"}
  ELSE IF includes(low, "debit") THEN {"debit"}
  ELSE {"credit", "debit"}

\* the directions the resolution policy allows for a lower-cased body
DirectionsByPolicy(low, outflowCue, inflowCue) ==
  IF outflowCue /\ inflowCue THEN EarlierSubstring(low)
  ELSE IF inflowCue THEN {"credit"}
  ELSE {"debit"}

DirectionsOf(body) ==
  DirectionsByPolicy(toLowerCase(body),
                     SomeIncluded(debitKeywords, toLowerCase(body)),
                     SomeIncluded(creditKeywords, toLowerCase(body)))

\* C17: a record's direction is outflow with only outflow cues or no cue,
\* inflow with only inflow cues, and with cues of both sets the direction
\* whose substring ("credit", "debit") occurs earlier in the lower-cased
\* body, also when only one of the two substrings occurs.
C17DirectionInference ==
  \A i \in 1..Len(calls) :
     (calls[i].fn = "parseSmsToTransaction" /\ calls[i].result # null) =>
       calls[i].result.type \in DirectionsOf(calls[i].args[2])

\* "credit" and "debit" both occur in the lower-cased body, "credit" first
CreditFirst(low) ==
  /\ includes(low, "credit")
  /\ includes(low, "debit")
  /\ indexOf(low, "credit") < indexOf(low, "debit")

\* C18 as stated: every record of a body that contains both substrings,
\* "credit" first, has direction inflow.
C18CreditFirstInflow ==
  \A i \in 1..Len(calls) :
     (/\ calls[i].fn = "parseSmsToTransaction"
      /\ calls[i].result # null
      /\ CreditFirst(toLowerCase(calls[i].args[2]))) =>
       calls[i].result.type = "credit"

\* C18 amended: every record of a body that contains an inflow keyword and
\* both substrings, "credit" first, has direction inflow.
C18CreditFirstInflowCued ==
  \A i \in 1..Len(calls) :
     (/\ calls[i].fn = "parseSmsToTransaction"
      /\ calls[i].result # null
      /\ CreditFirst(toLowerCase(calls[i].args[2]))
      /\ SomeIncluded(creditKeywords, toLowerCase(calls[i].args[2]))) =>
       calls[i].result.type = "credit"

\* a body with keywords of both sets and "credit" before "debit" was
\* extracted as inflow
C18BothCuesCreditFirst ==
  \E i \in 1..Len(calls) :
     /\ calls[i].fn = "parseSmsToTransaction"
     /\ calls[i].args[2] = "Rs 100 credited, reversal of amount debited"
     /\ calls[i].result # null
     /\ calls[i].result.type = "credit"

\* what C20 gives as counterpartyBank for each sender of BankSenders
BankOfSender(sender) ==
  CASE sender = "VM-HDFCBK" -> "HDFC Bank"
    [] sender = "AX-ICICI" -> "ICICI Bank"
    [] sender = "sbiinb" -> "State Bank of India"
    [] sender = "AD-AXISBK" -> "Axis Bank"
    [] sender = "KOTAKB" -> "Kotak Mahindra"
    [] sender = "PNBSMS" -> "Punjab National Bank"
    [] sender = "BOIIND" -> "Bank of India"
    [] sender = "BOBTXN" -> "Bank of Baroda"
    [] sender = "Canara" -> "Canara Bank"
    [] sender = "UNIONB" -> "Union Bank"
    [] sender = "SBI-HDFC" -> "HDFC Bank"
    [] sender = "UNION-PNB-AXIS" -> "Axis Bank"
    [] sender = "BOBOI" -> "Bank of India"
    [] sender = "XXXXXXXXXXXXXXXXXXXXXX-Hdfc" -> "HDFC Bank"
    [] sender = "ABCDEFGHIJKLMNOPQRSTU" -> "ABCDEFGHIJKLMNOPQRST"
    [] sender = "abcdefghijklmnopqrstuvwxyz" -> "abcdefghijklmnopqrst"
    [] OTHER -> sender

\* C20: a record's bank is the full name of the first entry of the table, in
\* the table's order, whose short code the upper-cased sender contains, also
\* when it contains several; with none it is the sender, cut to its first 20
\* characters when longer.
C20BankResolution ==
  \A i \in 1..Len(calls) :
     (/\ calls[i].fn = "parseSmsToTransaction"
      /\ calls[i].result # null
      /\ calls[i].args[1] \in BankSenders) =>
       calls[i].result.bank = BankOfSender(calls[i].args[1])

\* a sender with three codes, the one first in the table last in the sender,
\* was resolved
C20SeveralCodes ==
  \E i \in 1..Len(calls) :
     /\ calls[i].fn = "parseSmsToTransaction"
     /\ calls[i].args[1] = "UNION-PNB-AXIS"
     /\ calls[i].result # null
     /\ calls[i].result.bank = "Axis Bank"


\* C21: a record in the Repository is in the Repository after every step,
\* with the same value in every field, whichever ingestion, manual entry,
\* confirm, reject or refresh takes the step.
C21RecordsPermanent == [][\A r \in rows : r \in rows']_vars

\* a stored record was met by a later insert of its identity that carried
\* another createdAt, next to a second record
C21InsertMetStoredRecord ==
  /\ Cardinality(rows) >= 2
  /\ \E r \in rows : \E k \in DOMAIN transactions :
       /\ transactions[k].id = r.id
       /\ transactions[k].createdAt > r.createdAt


\* the confirm at place i of uiOps is a duplicate one: its insert has run and
\* the Repository holds another record under the identity, so the identity
\* was stored before and the insert was ignored
DuplicateConfirm(i) ==
  /\ uiOps[i].kind = "confirm"
  /\ uiOps[i].pc \in {"getPending", "setPending", "addTransaction"}
  /\ uiOps[i].tx.id \in Ids(rows)
  /\ uiOps[i].tx \notin rows

\* C22: no step of a duplicate confirm changes the Repository or adds an
\* entry to the in-memory list of transactions; the removal from the Staging
\* Queue is its only effect.
C22DuplicateConfirmNoEffect ==
  [][\A i \in DOMAIN uiOps :
       (/\ DuplicateConfirm(i)
        /\ i \in DOMAIN uiOps'
        /\ uiOps'[i].pc # uiOps[i].pc) =>
         /\ rows' = rows
         /\ transactions' = transactions]_vars


\* C23: the policy read is false exactly when the item could be read and
\* holds the literal "false"; absent, any other value, or a failed read give
\* true.
C23PolicyDefault ==
  \A i \in 1..Len(calls) :
     calls[i].fn = "getAutoConfirmSetting" =>
       (calls[i].result = FALSE
          <=> (calls[i].args[1] = "false" /\ ~calls[i].args[2]))

\* the policy was read as false from "false", and as true from the same item
\* while the read failed
C23ReadBothWays ==
  /\ \E i \in 1..Len(calls) :
       /\ calls[i].fn = "getAutoConfirmSetting"
       /\ calls[i].args = <<"false", FALSE>>
       /\ calls[i].result = FALSE
  /\ \E i \in 1..Len(calls) :
       /\ calls[i].fn = "getAutoConfirmSetting"
       /\ calls[i].args = <<"false", TRUE>>
       /\ calls[i].result = TRUE


\* the step is the write of a remove(identity) called with the identity id
RemoveWrites(id) ==
  \E i \in DOMAIN uiOps :
     /\ uiOps[i].pc = "setPending"
     /\ uiOps[i].tx.id = id
     /\ i \in DOMAIN uiOps'
     /\ uiOps'[i].pc # "setPending"

\* C24: a staged record is in the Staging Queue after every step, with its
\* fields unchanged, unless the step is the write of a remove called with
\* its own identity; enqueues and other removes leave it, also when the read
\* of the stored queue failed.
C24LeavesOnlyByRemove ==
  [][\A k \in DOMAIN pendingValue :
       pendingValue[k] \notin Range(pendingValue') =>
         RemoveWrites(pendingValue[k].id)]_vars


\* C25: where nothing is removed, the write of one enqueue never takes away
\* what another wrote: a record that is in the Staging Queue is in it after
\* every step, so every record whose enqueue completed is staged afterwards.
C25NoEnqueueLost ==
  [][\A k \in DOMAIN pendingValue :
       pendingValue[k] \in Range(pendingValue')]_vars


\* C26: at most one interval timer runs, one runs exactly when the listener
\* is active, and a running timer is the one whose handle pollingInterval
\* holds, so that stopSmsListener clears it.
C26OneTimer ==
  /\ Cardinality(timers) <= 1
  /\ listenerActive <=> timers # {}
  /\ timers \subseteq {pollingInterval}


\* C27: no two entries of the in-memory list of transactions have the same
\* identity.
C27ListedOnce ==
  \A i, j \in DOMAIN transactions :
     i # j => transactions[i].id # transactions[j].id


\* C29: once no call of the coordinator is in flight, each of two messages
\* that differ in their bodies only and were handed over has a record of its
\* own, one that carries its text, in the Repository or in the Staging Queue.
C29DistinctBodiesKept ==
  procs = <<>> =>
    \A m \in Twins :
       TimesDelivered(m) > 0 =>
         \E r \in rows \cup Range(pendingValue) : r.description = trim(m[2])


\* C28: every entry of the in-memory list of transactions is a record of
\* the Repository.
C28ListedAreStored ==
  \A k \in DOMAIN transactions : transactions[k] \in rows


\* the inbox ids of the entries of a listing
ListedIds(listing) == {listing[i].id : i \in DOMAIN listing}

\* C30: while the listener stays active the watermark never decreases, and no
\* inbox entry is passed to the callback by polling more than once, in
\* whatever order the inbox callbacks of the ticks come.
C30DeliveredOnce ==
  /\ [](\A i, j \in DOMAIN delivered :
          (i # j /\ delivered[i].id > 0) => delivered[i].id # delivered[j].id)
  /\ [][(listenerActive /\ listenerActive') =>
          lastSmsTimestamp' >= lastSmsTimestamp]_vars

\* the callback of a later tick has passed on an entry that arrived after an
\* earlier tick read the inbox, and an entry that tick read, while the
\* callback of the earlier tick is still due
C30LaterTickFirst ==
  \E k \in DOMAIN polls : \E i, j \in DOMAIN delivered :
     /\ delivered[i].id > 0
     /\ delivered[i].id \notin ListedIds(polls[k])
     /\ delivered[j].id \in ListedIds(polls[k])
     /\ listenerActive

====
